---- MODULE Spec2Model ----
(***************************************************************************)
(* ResumeKit: the keyword-coverage / humanizer / AI-score core             *)
(* (app/services/keyword_coverage.py, app/services/humanizer.py).          *)
(*                                                                         *)
(* A Python str is modelled as the sequence of its Unicode code points, so *)
(* <<106, 97, 118, 97>> is "java".  Offsets into a text are Python's       *)
(* 0-based offsets: the slice t[s:e] is SubSeq(t, s + 1, e).  The model's  *)
(* alphabet is ASCII and the basic Cyrillic block U+0410..U+044F.          *)
(***************************************************************************)
EXTENDS Integers, Sequences, FiniteSets, TLC

VARIABLES
  resume_text,       \* compute_coverage: first argument
  job_description,   \* compute_coverage: second argument
  text,              \* the text argument of extract_keywords and the humanizer
  language,          \* the language argument ("en", "ru", ...)
  apply_variations,  \* humanize_text's flag
  call,              \* the function that has been called ("none": not yet)
  ret,               \* what the call returned: [raised, value]
  edits,             \* history: the stigma replacements the call made, in order
  request,           \* the JSON body posted to a humanizer endpoint
  core_calls,        \* history: the calls made into app/services/humanizer.py
  config,            \* app/config.py: the settings read from the environment
  knowledge_base,    \* the directory knowledge_base/ on disk
  _rag_service,      \* rag_service._rag_service: 0 for None, or the number of
                     \* an object of rag_services
  rag_services,      \* the RAGService objects constructed so far
  threads,           \* the threads calling get_rag_service and the requests to
                     \* /recommend: where each stands
  provider_calls,    \* history: the calls of client.embeddings.create
  llm_calls,         \* history: the calls of client.chat.completions.create
  db                 \* the database: users and their tailored resumes

\* the state of the core's callers (routes and services around the core)
callers == <<request, core_calls, config, knowledge_base, _rag_service,
             rag_services, threads, provider_calls, llm_calls, db>>

vars == <<resume_text, job_description, text, language, apply_variations,
          call, ret, edits, callers>>

\* the state of the retrieval service
rag == <<config, knowledge_base, _rag_service, rag_services, threads>>

\* no humanizer endpoint is involved
NoEndpoint ==
  /\ request = <<>>
  /\ core_calls = <<>>

\* no retrieval service is involved
NoRag ==
  /\ config = <<>>
  /\ knowledge_base = <<>>
  /\ _rag_service = 0
  /\ rag_services = <<>>
  /\ threads = <<>>

\* the services outside the process: the OpenAI API and the database
outside == <<provider_calls, llm_calls, db>>

\* nothing outside the process is involved
NoOutside ==
  /\ provider_calls = <<>>
  /\ llm_calls = <<>>
  /\ db = <<>>

\* no caller is involved: the core functions are called directly
NoCallers == NoEndpoint /\ NoRag /\ NoOutside

--------------------------------------------------------------------------
(* Characters and str methods                                              *)

IsAsciiUpper(c) == c >= 65 /\ c <= 90          \* [A-Z]
IsAsciiLower(c) == c >= 97 /\ c <= 122         \* [a-z]
IsDigit(c) == c >= 48 /\ c <= 57
IsCyrUpper(c) == c >= 1040 /\ c <= 1071        \* U+0410..U+042F
IsCyrLower(c) == c >= 1072 /\ c <= 1103        \* U+0430..U+044F

\* str.isupper / str.islower of one character
IsUpperChar(c) == IsAsciiUpper(c) \/ IsCyrUpper(c)
IsLowerChar(c) == IsAsciiLower(c) \/ IsCyrLower(c)

\* the regex class \w (Unicode): letters, digits and the underscore
IsWordChar(c) == IsUpperChar(c) \/ IsLowerChar(c) \/ IsDigit(c) \/ c = 95

\* the regex class \s and str.isspace: tab, LF, VT, FF, CR, FS..US, space
IsSpaceChar(c) == (c >= 9 /\ c <= 13) \/ (c >= 28 /\ c <= 32)

\* in both alphabets the lowercase letter is 32 code points after the capital
LowerChar(c) == IF IsUpperChar(c) THEN c + 32 ELSE c
UpperChar(c) == IF IsLowerChar(c) THEN c - 32 ELSE c

\* str.lower(), str.upper()
Lower(s) == [i \in 1..Len(s) |-> LowerChar(s[i])]
Upper(s) == [i \in 1..Len(s) |-> UpperChar(s[i])]

\* str.capitalize(): the first character uppercased, the rest lowercased
Capitalize(s) ==
  [i \in 1..Len(s) |-> IF i = 1 THEN UpperChar(s[i]) ELSE LowerChar(s[i])]

\* str.isupper(): at least one cased character and no lowercase one
IsUpperStr(s) ==
  /\ \E i \in 1..Len(s) : IsUpperChar(s[i])
  /\ \A i \in 1..Len(s) : ~IsLowerChar(s[i])

\* the slice t[s:e]
Slice(t, s, e) == SubSeq(t, s + 1, e)

\* t[at:at + len(p)] == p
MatchesAt(p, t, at) ==
  /\ at + Len(p) <= Len(t)
  /\ \A j \in 1..Len(p) : t[at + j] = p[j]

\* the Python test  p in t
IsSubstr(p, t) == \E at \in 0..(Len(t) - Len(p)) : MatchesAt(p, t, at)

\* the regex assertion \b at offset p: exactly one side is a word character
IsBoundary(t, p) ==
  LET before == p >= 1 /\ IsWordChar(t[p])
      after  == p < Len(t) /\ IsWordChar(t[p + 1])
  IN  before # after

\* the order of Python's str comparison: lexicographic by code point
RECURSIVE StrLess(_, _)
StrLess(a, b) ==
  IF b = <<>> THEN FALSE
  ELSE IF a = <<>> THEN TRUE
  ELSE IF a[1] # b[1] THEN a[1] < b[1]
  ELSE StrLess(Tail(a), Tail(b))

\* sorted(S) of a set of str
RECURSIVE sorted(_)
sorted(S) ==
  IF S = {} THEN <<>>
  ELSE LET least == CHOOSE x \in S : \A y \in S \ {x} : StrLess(x, y)
       IN  <<least>> \o sorted(S \ {least})

--------------------------------------------------------------------------
(* app/services/keyword_coverage.py                                        *)

\* _TECH_NORMALIZATIONS, in the dict's order: << variant, standard >>
TECH_NORMALIZATIONS ==
  << << <<112, 121, 116, 104, 111, 110>>, <<80, 121, 116, 104, 111, 110>> >>,  \* "python": "Python"
     << <<106, 97, 118, 97>>, <<74, 97, 118, 97>> >>,  \* "java": "Java"
     << <<106, 97, 118, 97, 115, 99, 114, 105, 112, 116>>, <<74, 97, 118, 97, 83, 99, 114, 105, 112, 116>> >>,  \* "javascript": "JavaScript"
     << <<116, 121, 112, 101, 115, 99, 114, 105, 112, 116>>, <<84, 121, 112, 101, 83, 99, 114, 105, 112, 116>> >>,  \* "typescript": "TypeScript"
     << <<114, 101, 97, 99, 116>>, <<82, 101, 97, 99, 116>> >>,  \* "react": "React"
     << <<118, 117, 101>>, <<86, 117, 101>> >>,  \* "vue": "Vue"
     << <<97, 110, 103, 117, 108, 97, 114>>, <<65, 110, 103, 117, 108, 97, 114>> >>,  \* "angular": "Angular"
     << <<102, 97, 115, 116, 97, 112, 105>>, <<70, 97, 115, 116, 65, 80, 73>> >>,  \* "fastapi": "FastAPI"
     << <<100, 106, 97, 110, 103, 111>>, <<68, 106, 97, 110, 103, 111>> >>,  \* "django": "Django"
     << <<102, 108, 97, 115, 107>>, <<70, 108, 97, 115, 107>> >>,  \* "flask": "Flask"
     << <<115, 112, 114, 105, 110, 103>>, <<83, 112, 114, 105, 110, 103>> >>,  \* "spring": "Spring"
     << <<115, 112, 114, 105, 110, 103, 32, 98, 111, 111, 116>>, <<83, 112, 114, 105, 110, 103, 32, 66, 111, 111, 116>> >>,  \* "spring boot": "Spring Boot"
     << <<112, 111, 115, 116, 103, 114, 101, 115, 113, 108>>, <<80, 111, 115, 116, 103, 114, 101, 83, 81, 76>> >>,  \* "postgresql": "PostgreSQL"
     << <<112, 111, 115, 116, 103, 114, 101, 115>>, <<80, 111, 115, 116, 103, 114, 101, 83, 81, 76>> >>,  \* "postgres": "PostgreSQL"
     << <<109, 121, 115, 113, 108>>, <<77, 121, 83, 81, 76>> >>,  \* "mysql": "MySQL"
     << <<109, 111, 110, 103, 111, 100, 98>>, <<77, 111, 110, 103, 111, 68, 66>> >>,  \* "mongodb": "MongoDB"
     << <<114, 101, 100, 105, 115>>, <<82, 101, 100, 105, 115>> >>,  \* "redis": "Redis"
     << <<100, 111, 99, 107, 101, 114>>, <<68, 111, 99, 107, 101, 114>> >>,  \* "docker": "Docker"
     << <<107, 117, 98, 101, 114, 110, 101, 116, 101, 115>>, <<75, 117, 98, 101, 114, 110, 101, 116, 101, 115>> >>,  \* "kubernetes": "Kubernetes"
     << <<107, 56, 115>>, <<75, 117, 98, 101, 114, 110, 101, 116, 101, 115>> >>,  \* "k8s": "Kubernetes"
     << <<97, 119, 115>>, <<65, 87, 83>> >>,  \* "aws": "AWS"
     << <<97, 122, 117, 114, 101>>, <<65, 122, 117, 114, 101>> >>,  \* "azure": "Azure"
     << <<103, 99, 112>>, <<71, 67, 80>> >>,  \* "gcp": "GCP"
     << <<103, 105, 116>>, <<71, 105, 116>> >>,  \* "git": "Git"
     << <<103, 105, 116, 104, 117, 98>>, <<71, 105, 116, 72, 117, 98>> >>,  \* "github": "GitHub"
     << <<103, 105, 116, 108, 97, 98>>, <<71, 105, 116, 76, 97, 98>> >>,  \* "gitlab": "GitLab"
     << <<99, 105, 47, 99, 100>>, <<67, 73, 47, 67, 68>> >>,  \* "ci/cd": "CI/CD"
     << <<99, 105, 99, 100>>, <<67, 73, 47, 67, 68>> >>,  \* "cicd": "CI/CD"
     << <<114, 101, 115, 116>>, <<82, 69, 83, 84>> >>,  \* "rest": "REST"
     << <<103, 114, 97, 112, 104, 113, 108>>, <<71, 114, 97, 112, 104, 81, 76>> >>,  \* "graphql": "GraphQL"
     << <<109, 105, 99, 114, 111, 115, 101, 114, 118, 105, 99, 101, 115>>, <<77, 105, 99, 114, 111, 115, 101, 114, 118, 105, 99, 101, 115>> >>,  \* "microservices": "Microservices"
     << <<97, 112, 105>>, <<65, 80, 73>> >>,  \* "api": "API"
     << <<115, 113, 108>>, <<83, 81, 76>> >>,  \* "sql": "SQL"
     << <<110, 111, 115, 113, 108>>, <<78, 111, 83, 81, 76>> >>,  \* "nosql": "NoSQL"
     << <<108, 105, 110, 117, 120>>, <<76, 105, 110, 117, 120>> >>,  \* "linux": "Linux"
     << <<117, 110, 105, 120>>, <<85, 110, 105, 120>> >>,  \* "unix": "Unix"
     << <<97, 103, 105, 108, 101>>, <<65, 103, 105, 108, 101>> >>,  \* "agile": "Agile"
     << <<115, 99, 114, 117, 109>>, <<83, 99, 114, 117, 109>> >> >>  \* "scrum": "Scrum"

\* the end of the maximal run of [a-z] (lower), [A-Z] (upper), \w (word) or
\* \s (space) characters that starts at offset p
RECURSIVE RunEnd(_, _, _)
RunEnd(class, t, p) ==
  IF p < Len(t) /\ ( \/ class = "lower" /\ IsAsciiLower(t[p + 1])
                     \/ class = "upper" /\ IsAsciiUpper(t[p + 1])
                     \/ class = "word"  /\ IsWordChar(t[p + 1])
                     \/ class = "space" /\ IsSpaceChar(t[p + 1]) )
  THEN RunEnd(class, t, p + 1)
  ELSE p

\* [A-Z][a-z]+ at offset p: the end of the match, -1 if none.  Every use is
\* followed by \b or \s, so [a-z]+ can only stand for the maximal run.
CapWordEnd(t, p) ==
  IF p < Len(t) /\ IsAsciiUpper(t[p + 1]) /\ RunEnd("lower", t, p + 1) > p + 1
  THEN RunEnd("lower", t, p + 1)
  ELSE -1

\* (?:\s+[A-Z][a-z]+)*\b from offset e, the end of a capitalized word: the
\* greedy star takes as many further words as still let \b hold at the end
RECURSIVE CapChainEnd(_, _)
CapChainEnd(t, e) ==
  LET ws      == RunEnd("space", t, e)
      word    == IF ws > e THEN CapWordEnd(t, ws) ELSE -1
      further == IF word # -1 THEN CapChainEnd(t, word) ELSE -1
  IN  IF further # -1 THEN further
      ELSE IF IsBoundary(t, e) THEN e
      ELSE -1

\* the alternation (js|ts|py|java|go|rs|rb), in the pattern's order
FILE_EXTENSIONS ==
  << <<106, 115>>, <<116, 115>>, <<112, 121>>, <<106, 97, 118, 97>>,
     <<103, 111>>, <<114, 115>>, <<114, 98>> >>

\* tech_patterns, in the list's order.  group = 1: the pattern has one
\* capturing group, and re.findall then returns that group, not the match.
tech_patterns ==
  << [kind |-> "capitalized", group |-> 0],
       \* \b[A-Z][a-z]+(?:\s+[A-Z][a-z]+)*\b
     [kind |-> "upper_run", group |-> 0, least |-> 2],  \* \b[A-Z]{2,}\b
     [kind |-> "file_ext", group |-> 1] >>
       \* \b\w+\.(js|ts|py|java|go|rs|rb)\b

\* the match of a pattern that starts at offset p: [start, end, gstart, gend]
\* (the span of the match and of its group 1), or NoMatch
NoMatch == [start |-> -1, end |-> -1, gstart |-> -1, gend |-> -1]

MatchCapitalized(t, p) ==
  LET e == IF IsBoundary(t, p) /\ CapWordEnd(t, p) # -1
           THEN CapChainEnd(t, CapWordEnd(t, p)) ELSE -1
  IN  IF e = -1 THEN NoMatch
      ELSE [start |-> p, end |-> e, gstart |-> -1, gend |-> -1]

\* \b[A-Z]{least,}\b: a shorter run would end before a capital, where \b fails
MatchUpperRun(t, p, least) ==
  LET e == RunEnd("upper", t, p)
  IN  IF IsBoundary(t, p) /\ e >= p + least /\ IsBoundary(t, e)
      THEN [start |-> p, end |-> e, gstart |-> p, gend |-> e]
      ELSE NoMatch

MatchFileExt(t, p) ==
  LET w    == RunEnd("word", t, p)
      dot  == w > p /\ w < Len(t) /\ t[w + 1] = 46
      fits == {k \in 1..Len(FILE_EXTENSIONS) :
                 /\ MatchesAt(FILE_EXTENSIONS[k], t, w + 1)
                 /\ IsBoundary(t, w + 1 + Len(FILE_EXTENSIONS[k]))}
  IN  IF IsBoundary(t, p) /\ dot /\ fits # {}
      THEN LET k == CHOOSE k \in fits : \A j \in fits : k <= j
           IN  [start |-> p, end |-> w + 1 + Len(FILE_EXTENSIONS[k]),
                gstart |-> w + 1, gend |-> w + 1 + Len(FILE_EXTENSIONS[k])]
      ELSE NoMatch

\* \b phrase \b under re.IGNORECASE, the phrase a literal
MatchPhrase(phrase, t, p) ==
  IF /\ IsBoundary(t, p)
     /\ p + Len(phrase) <= Len(t)
     /\ \A j \in 1..Len(phrase) : LowerChar(t[p + j]) = LowerChar(phrase[j])
     /\ IsBoundary(t, p + Len(phrase))
  THEN [start |-> p, end |-> p + Len(phrase), gstart |-> -1, gend |-> -1]
  ELSE NoMatch

MatchPattern(pattern, t, p) ==
  CASE pattern.kind = "capitalized" -> MatchCapitalized(t, p)
    [] pattern.kind = "upper_run"   -> MatchUpperRun(t, p, pattern.least)
    [] pattern.kind = "file_ext"    -> MatchFileExt(t, p)
    [] pattern.kind = "phrase"      -> MatchPhrase(pattern.phrase, t, p)

\* the scan of re.finditer: the leftmost match from offset p on, then on from
\* its end (no pattern here matches the empty string)
RECURSIVE finditer(_, _, _)
finditer(pattern, t, p) ==
  IF p >= Len(t) THEN <<>>
  ELSE LET m == MatchPattern(pattern, t, p)
       IN  IF m = NoMatch THEN finditer(pattern, t, p + 1)
           ELSE <<m>> \o finditer(pattern, t, m.end)

\* the elements of a list
Elements(seq) == {seq[i] : i \in 1..Len(seq)}

\* what re.findall makes of the matches ms: the strings of group 1 where the
\* pattern has a group, the matched strings where it has none
Groups(pattern, t, ms) ==
  [i \in 1..Len(ms) |->
     IF pattern.group = 1 THEN Slice(t, ms[i].gstart, ms[i].gend)
     ELSE Slice(t, ms[i].start, ms[i].end)]

\* re.findall(pattern, text)
findall(pattern, t) == Groups(pattern, t, finditer(pattern, t, 0))

\* the loop over tech_patterns: the matches longer than two characters
PatternKeywords(t) ==
  UNION { {match \in Elements(findall(tech_patterns[k], t)) : Len(match) > 2}
          : k \in 1..Len(tech_patterns) }

\* extract_keywords testing the lexicon on whole words, not on substrings
extract_keywords_whole_word(t) ==
  LET text_lower == Lower(t)
      whole(p)   == \E at \in 0..(Len(text_lower) - Len(p)) :
                       /\ MatchesAt(p, text_lower, at)
                       /\ IsBoundary(text_lower, at)
                       /\ IsBoundary(text_lower, at + Len(p))
      normalized == {entry[2] : entry \in
                       {entry \in Elements(TECH_NORMALIZATIONS) :
                          \/ whole(entry[1])
                          \/ whole(Lower(entry[2]))}}
  IN  normalized \cup PatternKeywords(t)

\* extract_keywords(text).  normalized_text (lines 64-66) is computed and
\* never read, so it has no part in the result.
extract_keywords(t) ==
  LET text_lower == Lower(t)
      normalized == {entry[2] : entry \in
                       {entry \in Elements(TECH_NORMALIZATIONS) :
                          \/ IsSubstr(entry[1], text_lower)
                          \/ IsSubstr(Lower(entry[2]), text_lower)}}
  IN  normalized \cup PatternKeywords(t)

\* what a call hands back: a value, or the exception it raised
Returned(v) == [raised |-> "none", value |-> v]
Raised(e) == [raised |-> e, value |-> <<>>]

\* Python's true division m / n of two ints: the exact quotient num/den, or
\* ok = FALSE where Python raises ZeroDivisionError
TrueDiv(m, n) == [ok |-> n # 0, num |-> m, den |-> n]

\* round2 truncating instead of rounding
round2_truncating(x) == (100 * x.num) \div x.den

\* round(x, 2) of a quotient x = num/den >= 0, as a number of hundredths.
\* Python rounds the double to the nearest hundredth, a tie to the even one;
\* a quotient of two set sizes below 40 that lies on a tie is a multiple of
\* 1/8, which the double holds exactly.
round2(x) ==
  LET q == (100 * x.num) \div x.den
      r == (100 * x.num) % x.den
  IN  IF 2 * r < x.den THEN q
      ELSE IF 2 * r > x.den THEN q + 1
      ELSE IF q % 2 = 0 THEN q ELSE q + 1

\* CoverageOf with the difference taken the wrong way round
CoverageOf_missing_swapped(resume_keywords, jd_keywords) ==
  LET matched == sorted(resume_keywords \cap jd_keywords)
      missing == sorted(resume_keywords \ jd_keywords)
      score   == IF jd_keywords # {}
                 THEN TrueDiv(Len(matched), Cardinality(jd_keywords))
                 ELSE TrueDiv(0, 1)
  IN  IF ~score.ok THEN Raised("ZeroDivisionError")
      ELSE Returned([matched |-> matched,
                     missing |-> missing,
                     score |-> round2(score),
                     total_jd_keywords |-> Cardinality(jd_keywords),
                     total_resume_keywords |-> Cardinality(resume_keywords)])

\* CoverageOf scoring the resume's keywords, not the matched ones
CoverageOf_resume_ratio(resume_keywords, jd_keywords) ==
  LET matched == sorted(resume_keywords \cap jd_keywords)
      missing == sorted(jd_keywords \ resume_keywords)
      score   == IF jd_keywords # {}
                 THEN TrueDiv(Cardinality(resume_keywords), Cardinality(jd_keywords))
                 ELSE TrueDiv(0, 1)
  IN  IF ~score.ok THEN Raised("ZeroDivisionError")
      ELSE Returned([matched |-> matched,
                     missing |-> missing,
                     score |-> round2(score),
                     total_jd_keywords |-> Cardinality(jd_keywords),
                     total_resume_keywords |-> Cardinality(resume_keywords)])

\* CoverageOf dividing without the guard on an empty JD keyword set
CoverageOf_unguarded(resume_keywords, jd_keywords) ==
  LET matched == sorted(resume_keywords \cap jd_keywords)
      missing == sorted(jd_keywords \ resume_keywords)
      score   == TrueDiv(Len(matched), Cardinality(jd_keywords))
  IN  IF ~score.ok THEN Raised("ZeroDivisionError")
      ELSE Returned([matched |-> matched,
                     missing |-> missing,
                     score |-> round2(score),
                     total_jd_keywords |-> Cardinality(jd_keywords),
                     total_resume_keywords |-> Cardinality(resume_keywords)])

\* lines 112-126 of compute_coverage, from the two keyword sets on; score is
\* in hundredths
CoverageOf(resume_keywords, jd_keywords) ==
  LET matched == sorted(resume_keywords \cap jd_keywords)
      missing == sorted(jd_keywords \ resume_keywords)
      score   == IF jd_keywords # {}
                 THEN TrueDiv(Len(matched), Cardinality(jd_keywords))
                 ELSE TrueDiv(0, 1)
  IN  IF ~score.ok THEN Raised("ZeroDivisionError")
      ELSE Returned([matched |-> matched,
                     missing |-> missing,
                     score |-> round2(score),
                     total_jd_keywords |-> Cardinality(jd_keywords),
                     total_resume_keywords |-> Cardinality(resume_keywords)])

\* compute_coverage(resume_text, job_description)
compute_coverage(resume, jd) ==
  CoverageOf(extract_keywords(resume), extract_keywords(jd))

--------------------------------------------------------------------------
(* app/services/humanizer.py                                               *)
(*                                                                         *)
(* The functions draw from the process-wide random generator.  Each is the *)
(* set of its outcomes over all draws; an outcome is [text, edits], the    *)
(* text and the log of the stigma replacements made on the way to it.      *)

\* AI_STIGMA_PHRASES, in the dict's order: << stigma, alternatives >>
AI_STIGMA_PHRASES ==
  << (* "leverage": ['use', 'apply', 'employ', 'work with'] *)
     << <<108, 101, 118, 101, 114, 97, 103, 101>>,
        << <<117, 115, 101>>,
          <<97, 112, 112, 108, 121>>,
          <<101, 109, 112, 108, 111, 121>>,
          <<119, 111, 114, 107, 32, 119, 105, 116, 104>> >> >>,
     (* "utilize": ['use', 'employ', 'apply'] *)
     << <<117, 116, 105, 108, 105, 122, 101>>,
        << <<117, 115, 101>>,
          <<101, 109, 112, 108, 111, 121>>,
          <<97, 112, 112, 108, 121>> >> >>,
     (* "robust": ['strong', 'reliable', 'solid', 'effective'] *)
     << <<114, 111, 98, 117, 115, 116>>,
        << <<115, 116, 114, 111, 110, 103>>,
          <<114, 101, 108, 105, 97, 98, 108, 101>>,
          <<115, 111, 108, 105, 100>>,
          <<101, 102, 102, 101, 99, 116, 105, 118, 101>> >> >>,
     (* "cutting-edge": ['modern', 'latest', 'current', 'advanced'] *)
     << <<99, 117, 116, 116, 105, 110, 103, 45, 101, 100, 103, 101>>,
        << <<109, 111, 100, 101, 114, 110>>,
          <<108, 97, 116, 101, 115, 116>>,
          <<99, 117, 114, 114, 101, 110, 116>>,
          <<97, 100, 118, 97, 110, 99, 101, 100>> >> >>,
     (* "state-of-the-art": ['modern', 'advanced', 'latest'] *)
     << <<115, 116, 97, 116, 101, 45, 111, 102, 45, 116, 104, 101, 45, 97, 114, 116>>,
        << <<109, 111, 100, 101, 114, 110>>,
          <<97, 100, 118, 97, 110, 99, 101, 100>>,
          <<108, 97, 116, 101, 115, 116>> >> >>,
     (* "seamlessly": ['smoothly', 'effectively', 'efficiently'] *)
     << <<115, 101, 97, 109, 108, 101, 115, 115, 108, 121>>,
        << <<115, 109, 111, 111, 116, 104, 108, 121>>,
          <<101, 102, 102, 101, 99, 116, 105, 118, 101, 108, 121>>,
          <<101, 102, 102, 105, 99, 105, 101, 110, 116, 108, 121>> >> >>,
     (* "synergy": ['cooperation', 'collaboration', 'teamwork'] *)
     << <<115, 121, 110, 101, 114, 103, 121>>,
        << <<99, 111, 111, 112, 101, 114, 97, 116, 105, 111, 110>>,
          <<99, 111, 108, 108, 97, 98, 111, 114, 97, 116, 105, 111, 110>>,
          <<116, 101, 97, 109, 119, 111, 114, 107>> >> >>,
     (* "paradigm": ['approach', 'model', 'framework'] *)
     << <<112, 97, 114, 97, 100, 105, 103, 109>>,
        << <<97, 112, 112, 114, 111, 97, 99, 104>>,
          <<109, 111, 100, 101, 108>>,
          <<102, 114, 97, 109, 101, 119, 111, 114, 107>> >> >>,
     (* "proactive": ['forward-thinking', 'active', 'initiative-driven'] *)
     << <<112, 114, 111, 97, 99, 116, 105, 118, 101>>,
        << <<102, 111, 114, 119, 97, 114, 100, 45, 116, 104, 105, 110, 107, 105, 110, 103>>,
          <<97, 99, 116, 105, 118, 101>>,
          <<105, 110, 105, 116, 105, 97, 116, 105, 118, 101, 45, 100, 114, 105, 118, 101, 110>> >> >>,
     (* "game-changer": ['breakthrough', 'innovation', 'advancement'] *)
     << <<103, 97, 109, 101, 45, 99, 104, 97, 110, 103, 101, 114>>,
        << <<98, 114, 101, 97, 107, 116, 104, 114, 111, 117, 103, 104>>,
          <<105, 110, 110, 111, 118, 97, 116, 105, 111, 110>>,
          <<97, 100, 118, 97, 110, 99, 101, 109, 101, 110, 116>> >> >>,
     (* "touch base": ['contact', 'reach out', 'connect'] *)
     << <<116, 111, 117, 99, 104, 32, 98, 97, 115, 101>>,
        << <<99, 111, 110, 116, 97, 99, 116>>,
          <<114, 101, 97, 99, 104, 32, 111, 117, 116>>,
          <<99, 111, 110, 110, 101, 99, 116>> >> >>,
     (* "circle back": ['return to', 'follow up on', 'revisit'] *)
     << <<99, 105, 114, 99, 108, 101, 32, 98, 97, 99, 107>>,
        << <<114, 101, 116, 117, 114, 110, 32, 116, 111>>,
          <<102, 111, 108, 108, 111, 119, 32, 117, 112, 32, 111, 110>>,
          <<114, 101, 118, 105, 115, 105, 116>> >> >>,
     (* "deep dive": ['detailed analysis', 'thorough review', 'close look'] *)
     << <<100, 101, 101, 112, 32, 100, 105, 118, 101>>,
        << <<100, 101, 116, 97, 105, 108, 101, 100, 32, 97, 110, 97, 108, 121, 115, 105, 115>>,
          <<116, 104, 111, 114, 111, 117, 103, 104, 32, 114, 101, 118, 105, 101, 119>>,
          <<99, 108, 111, 115, 101, 32, 108, 111, 111, 107>> >> >> >>

\* random.choice(seq): any element
random_choice(seq) == {seq[i] : i \in 1..Len(seq)}

\* random.random() < p for 0 < p < 1: either way
random_below == BOOLEAN

\* re.compile(r'\b' + phrase + r'\b', re.IGNORECASE)
PhrasePattern(phrase) == [kind |-> "phrase", group |-> 0, phrase |-> phrase]

\* the adaptation of a replacement to the case of the match (lines 101-105)
MatchCase(matched, replacement) ==
  IF IsUpperStr(matched) THEN Upper(replacement)
  ELSE IF IsUpperChar(matched[1]) THEN Capitalize(replacement)
  ELSE replacement

\* Splice losing what follows the match
Splice_losing_tail(t, m, replacement) == Slice(t, 0, m.start) \o replacement

\* result[:match.start()] + replacement + result[match.end():]
Splice(t, m, replacement) ==
  Slice(t, 0, m.start) \o replacement \o Slice(t, m.end, Len(t))

\* ReplaceMatches replacing one occurrence only
ReplaceMatches_one_only(o, matches, k, alternatives) ==
  IF k = 0 THEN {o}
  ELSE LET matched == Slice(o.text, matches[k].start, matches[k].end)
       IN  { [text  |-> Splice(o.text, matches[k], MatchCase(matched, alt)),
              edits |-> Append(o.edits,
                          [matched |-> matched, alternative |-> alt,
                           replacement |-> MatchCase(matched, alt)])]
             : alt \in random_choice(alternatives) }

\* the loop  for match in reversed(matches)  of _replace_stigma_phrases, from
\* the k-th match down to the first
RECURSIVE ReplaceMatches(_, _, _, _)
ReplaceMatches(o, matches, k, alternatives) ==
  IF k = 0 THEN {o}
  ELSE LET matched == Slice(o.text, matches[k].start, matches[k].end)
       IN  UNION { ReplaceMatches(
                     [text  |-> Splice(o.text, matches[k], MatchCase(matched, alt)),
                      edits |-> Append(o.edits,
                                  [matched |-> matched, alternative |-> alt,
                                   replacement |-> MatchCase(matched, alt)])],
                     matches, k - 1, alternatives)
                 : alt \in random_choice(alternatives) }

\* matches = list(pattern.finditer(result)) and the loop over them
ReplaceAll(o, matches, alternatives) ==
  ReplaceMatches(o, matches, Len(matches), alternatives)

\* one turn of the loop  for stigma, alternatives in AI_STIGMA_PHRASES.items()
\* (entry = << stigma, alternatives >>), over every outcome so far
StigmaPass(outcomes, entry) ==
  UNION { ReplaceAll(o, finditer(PhrasePattern(entry[1]), o.text, 0), entry[2])
          : o \in outcomes }

\* the loop  for stigma, alternatives in AI_STIGMA_PHRASES.items()  from the
\* i-th entry on
RECURSIVE StigmaPasses(_, _)
StigmaPasses(outcomes, i) ==
  IF i > Len(AI_STIGMA_PHRASES) THEN outcomes
  ELSE StigmaPasses(StigmaPass(outcomes, AI_STIGMA_PHRASES[i]), i + 1)

\* _replace_stigma_phrases(text)
_replace_stigma_phrases(t) == StigmaPasses({[text |-> t, edits |-> <<>>]}, 1)

\* contractions, in the dict's order: << formal, casual >>
contractions ==
  << << <<73, 32, 97, 109>>, <<73, 39, 109>> >>,  \* "I am": "I'm"
     << <<73, 32, 104, 97, 118, 101>>, <<73, 39, 118, 101>> >>,  \* "I have": "I've"
     << <<73, 32, 119, 111, 117, 108, 100>>, <<73, 39, 100>> >>,  \* "I would": "I'd"
     << <<99, 97, 110, 110, 111, 116>>, <<99, 97, 110, 39, 116>> >>,  \* "cannot": "can't"
     << <<100, 111, 32, 110, 111, 116>>, <<100, 111, 110, 39, 116>> >>,  \* "do not": "don't"
     << <<119, 105, 108, 108, 32, 110, 111, 116>>, <<119, 111, 110, 39, 116>> >> >>  \* "will not": "won't"

\* the loop  for match in reversed(matches)  of _add_natural_variations: each
\* match gives way to the contraction with probability 0.3
RECURSIVE ContractMatches(_, _, _, _)
ContractMatches(o, matches, k, casual) ==
  IF k = 0 THEN {o}
  ELSE UNION { ContractMatches(
                 IF hit THEN [o EXCEPT !.text = Splice(o.text, matches[k], casual)]
                 ELSE o,
                 matches, k - 1, casual)
             : hit \in random_below }

\* matches = list(pattern.finditer(result)) and the loop over them
ContractAll(o, matches, casual) == ContractMatches(o, matches, Len(matches), casual)

\* one turn of the loop  for formal, casual in contractions.items()
\* (entry = << formal, casual >>), over every outcome so far
ContractionPass(outcomes, entry) ==
  UNION { ContractAll(o, finditer(PhrasePattern(entry[1]), o.text, 0), entry[2])
          : o \in outcomes }

RECURSIVE ContractionPasses(_, _)
ContractionPasses(outcomes, i) ==
  IF i > Len(contractions) THEN outcomes
  ELSE ContractionPasses(ContractionPass(outcomes, contractions[i]), i + 1)

\* _add_natural_variations(text), from an outcome on
_add_natural_variations(o) == ContractionPasses({o}, 1)

\* _vary_sentence_structure(text): collects the sentence starters of the
\* lines and returns the text as it came
_vary_sentence_structure(t) == t

\* str.find(sep, p): the offset of the first occurrence at or after p, or -1
Find(t, sep, p) ==
  LET hits == {at \in p..(Len(t) - Len(sep)) : MatchesAt(sep, t, at)}
  IN  IF hits = {} THEN -1 ELSE CHOOSE at \in hits : \A other \in hits : at <= other

\* str.split(sep), from offset p on
RECURSIVE SplitFrom(_, _, _)
SplitFrom(t, sep, p) ==
  LET at == Find(t, sep, p)
  IN  IF at = -1 THEN <<Slice(t, p, Len(t))>>
      ELSE <<Slice(t, p, at)>> \o SplitFrom(t, sep, at + Len(sep))

Split(t, sep) == SplitFrom(t, sep, 0)

\* sep.join(parts)
RECURSIVE Join(_, _)
Join(parts, sep) ==
  IF parts = <<>> THEN <<>>
  ELSE IF Len(parts) = 1 THEN parts[1]
  ELSE parts[1] \o sep \o Join(Tail(parts), sep)

\* str.count(c) of one character
Count(t, c) == Cardinality({i \in 1..Len(t) : t[i] = c})

\* str.strip()
RECURSIVE Strip(_)
Strip(t) ==
  IF t = <<>> THEN t
  ELSE IF IsSpaceChar(t[1]) THEN Strip(Tail(t))
  ELSE IF IsSpaceChar(t[Len(t)]) THEN Strip(SubSeq(t, 1, Len(t) - 1))
  ELSE t

\* the loop  for part in parts[1:]  of _reduce_enthusiasm, from the k-th part
RECURSIVE AppendParts(_, _, _)
AppendParts(processed_para, parts, k) ==
  IF k > Len(parts) THEN processed_para
  ELSE AppendParts(
         IF Strip(parts[k]) # <<>> THEN processed_para \o <<46>> \o parts[k]
         ELSE processed_para,
         parts, k + 1)

\* ReduceParagraph letting two exclamation marks stand
ReduceParagraph_over_two(para) ==
  IF Count(para, 33) > 2
  THEN LET parts == Split(para, <<33>>)
       IN  AppendParts(parts[1] \o <<33>>, parts, 2)
  ELSE para

\* one paragraph of _reduce_enthusiasm (lines 179-191)
ReduceParagraph(para) ==
  IF Count(para, 33) > 1
  THEN LET parts == Split(para, <<33>>)
       IN  AppendParts(parts[1] \o <<33>>, parts, 2)
  ELSE para

\* re.sub(r'\b([A-Z]{3,})\b', lambda m: m.group().capitalize(), result): the
\* matches do not overlap and the replacement keeps the length
RECURSIVE CapitalizeMatches(_, _, _)
CapitalizeMatches(t, matches, k) ==
  IF k = 0 THEN t
  ELSE CapitalizeMatches(
         Splice(t, matches[k], Capitalize(Slice(t, matches[k].start, matches[k].end))),
         matches, k - 1)

\* re.sub(..., count=1): the first run only
CapitalizeAll_first_only(t, matches) ==
  IF Len(matches) = 0 THEN t
  ELSE Splice(t, matches[1], Capitalize(Slice(t, matches[1].start, matches[1].end)))

CapitalizeAll(t, matches) == CapitalizeMatches(t, matches, Len(matches))

\* line 196: the runs of three or more capitals, capitalized
ReduceCapitals(result) ==
  CapitalizeAll(result,
                finditer([kind |-> "upper_run", group |-> 1, least |-> 3], result, 0))

\* the loop  for para in paragraphs  (lines 178-191)
ReduceParagraphs(paragraphs) ==
  [i \in 1..Len(paragraphs) |-> ReduceParagraph(paragraphs[i])]

\* _reduce_enthusiasm(text)
_reduce_enthusiasm(t) ==
  ReduceCapitals(Join(ReduceParagraphs(Split(t, <<10, 10>>)), <<10, 10>>))

\* russian_stigmas, in the dict's order: << stigma, alternatives >>
russian_stigmas ==
  << (* "использовать": ['применять', 'работать с', 'применить'] *)
     << <<1080, 1089, 1087, 1086, 1083, 1100, 1079, 1086, 1074, 1072, 1090, 1100>>,
        << <<1087, 1088, 1080, 1084, 1077, 1085, 1103, 1090, 1100>>,
          <<1088, 1072, 1073, 1086, 1090, 1072, 1090, 1100, 32, 1089>>,
          <<1087, 1088, 1080, 1084, 1077, 1085, 1080, 1090, 1100>> >> >>,
     (* "эффективный": ['результативный', 'продуктивный', 'успешный', 'действенный'] *)
     << <<1101, 1092, 1092, 1077, 1082, 1090, 1080, 1074, 1085, 1099, 1081>>,
        << <<1088, 1077, 1079, 1091, 1083, 1100, 1090, 1072, 1090, 1080, 1074, 1085, 1099, 1081>>,
          <<1087, 1088, 1086, 1076, 1091, 1082, 1090, 1080, 1074, 1085, 1099, 1081>>,
          <<1091, 1089, 1087, 1077, 1096, 1085, 1099, 1081>>,
          <<1076, 1077, 1081, 1089, 1090, 1074, 1077, 1085, 1085, 1099, 1081>> >> >>,
     (* "инновационный": ['современный', 'передовой', 'новый', 'актуальный'] *)
     << <<1080, 1085, 1085, 1086, 1074, 1072, 1094, 1080, 1086, 1085, 1085, 1099, 1081>>,
        << <<1089, 1086, 1074, 1088, 1077, 1084, 1077, 1085, 1085, 1099, 1081>>,
          <<1087, 1077, 1088, 1077, 1076, 1086, 1074, 1086, 1081>>,
          <<1085, 1086, 1074, 1099, 1081>>,
          <<1072, 1082, 1090, 1091, 1072, 1083, 1100, 1085, 1099, 1081>> >> >>,
     (* "оптимизировать": ['улучшить', 'доработать', 'усовершенствовать', 'настроить'] *)
     << <<1086, 1087, 1090, 1080, 1084, 1080, 1079, 1080, 1088, 1086, 1074, 1072, 1090, 1100>>,
        << <<1091, 1083, 1091, 1095, 1096, 1080, 1090, 1100>>,
          <<1076, 1086, 1088, 1072, 1073, 1086, 1090, 1072, 1090, 1100>>,
          <<1091, 1089, 1086, 1074, 1077, 1088, 1096, 1077, 1085, 1089, 1090, 1074, 1086, 1074, 1072, 1090, 1100>>,
          <<1085, 1072, 1089, 1090, 1088, 1086, 1080, 1090, 1100>> >> >>,
     (* "осуществлять": ['выполнять', 'проводить', 'делать'] *)
     << <<1086, 1089, 1091, 1097, 1077, 1089, 1090, 1074, 1083, 1103, 1090, 1100>>,
        << <<1074, 1099, 1087, 1086, 1083, 1085, 1103, 1090, 1100>>,
          <<1087, 1088, 1086, 1074, 1086, 1076, 1080, 1090, 1100>>,
          <<1076, 1077, 1083, 1072, 1090, 1100>> >> >>,
     (* "реализовать": ['выполнить', 'сделать', 'создать'] *)
     << <<1088, 1077, 1072, 1083, 1080, 1079, 1086, 1074, 1072, 1090, 1100>>,
        << <<1074, 1099, 1087, 1086, 1083, 1085, 1080, 1090, 1100>>,
          <<1089, 1076, 1077, 1083, 1072, 1090, 1100>>,
          <<1089, 1086, 1079, 1076, 1072, 1090, 1100>> >> >>,
     (* "уникальный": ['особенный', 'отличительный', 'своеобразный'] *)
     << <<1091, 1085, 1080, 1082, 1072, 1083, 1100, 1085, 1099, 1081>>,
        << <<1086, 1089, 1086, 1073, 1077, 1085, 1085, 1099, 1081>>,
          <<1086, 1090, 1083, 1080, 1095, 1080, 1090, 1077, 1083, 1100, 1085, 1099, 1081>>,
          <<1089, 1074, 1086, 1077, 1086, 1073, 1088, 1072, 1079, 1085, 1099, 1081>> >> >>,
     (* "квалифицированный": ['опытный', 'компетентный', 'знающий'] *)
     << <<1082, 1074, 1072, 1083, 1080, 1092, 1080, 1094, 1080, 1088, 1086, 1074, 1072, 1085, 1085, 1099, 1081>>,
        << <<1086, 1087, 1099, 1090, 1085, 1099, 1081>>,
          <<1082, 1086, 1084, 1087, 1077, 1090, 1077, 1085, 1090, 1085, 1099, 1081>>,
          <<1079, 1085, 1072, 1102, 1097, 1080, 1081>> >> >>,
     (* "высококачественный": ['качественный', 'надежный', 'хороший'] *)
     << <<1074, 1099, 1089, 1086, 1082, 1086, 1082, 1072, 1095, 1077, 1089, 1090, 1074, 1077, 1085, 1085, 1099, 1081>>,
        << <<1082, 1072, 1095, 1077, 1089, 1090, 1074, 1077, 1085, 1085, 1099, 1081>>,
          <<1085, 1072, 1076, 1077, 1078, 1085, 1099, 1081>>,
          <<1093, 1086, 1088, 1086, 1096, 1080, 1081>> >> >>,
     (* "многофункциональный": ['универсальный', 'гибкий'] *)
     << <<1084, 1085, 1086, 1075, 1086, 1092, 1091, 1085, 1082, 1094, 1080, 1086, 1085, 1072, 1083, 1100, 1085, 1099, 1081>>,
        << <<1091, 1085, 1080, 1074, 1077, 1088, 1089, 1072, 1083, 1100, 1085, 1099, 1081>>,
          <<1075, 1080, 1073, 1082, 1080, 1081>> >> >> >>

\* the formality substitutions of lines 235-239, in order: << old, new >>
formality ==
  << (* "Глубокоуважаемый" -> "Уважаемый" *)
     << <<1043, 1083, 1091, 1073, 1086, 1082, 1086, 1091, 1074, 1072, 1078, 1072, 1077, 1084, 1099, 1081>>,
        <<1059, 1074, 1072, 1078, 1072, 1077, 1084, 1099, 1081>> >>,
     (* "С глубоким уважением" -> "С уважением" *)
     << <<1057, 32, 1075, 1083, 1091, 1073, 1086, 1082, 1080, 1084, 32, 1091, 1074, 1072, 1078, 1077, 1085, 1080, 1077, 1084>>,
        <<1057, 32, 1091, 1074, 1072, 1078, 1077, 1085, 1080, 1077, 1084>> >>,
     (* "выражаю заинтересованность" -> "меня заинтересовала" *)
     << <<1074, 1099, 1088, 1072, 1078, 1072, 1102, 32, 1079, 1072, 1080, 1085, 1090, 1077, 1088, 1077, 1089, 1086, 1074, 1072, 1085, 1085, 1086, 1089, 1090, 1100>>,
        <<1084, 1077, 1085, 1103, 32, 1079, 1072, 1080, 1085, 1090, 1077, 1088, 1077, 1089, 1086, 1074, 1072, 1083, 1072>> >>,
     (* "хотел бы выразить" -> "хочу выразить" *)
     << <<1093, 1086, 1090, 1077, 1083, 32, 1073, 1099, 32, 1074, 1099, 1088, 1072, 1079, 1080, 1090, 1100>>,
        <<1093, 1086, 1095, 1091, 32, 1074, 1099, 1088, 1072, 1079, 1080, 1090, 1100>> >>,
     (* "имею глубокие знания" -> "имею хорошие знания" *)
     << <<1080, 1084, 1077, 1102, 32, 1075, 1083, 1091, 1073, 1086, 1082, 1080, 1077, 32, 1079, 1085, 1072, 1085, 1080, 1103>>,
        <<1080, 1084, 1077, 1102, 32, 1093, 1086, 1088, 1086, 1096, 1080, 1077, 32, 1079, 1085, 1072, 1085, 1080, 1103>> >> >>

\* the loop  for match in reversed(matches)  of _humanize_russian: each match
\* is replaced with probability 0.5; only the first letter's case is carried
\* over (lines 226-232)
RECURSIVE RussianReplaceMatches(_, _, _, _)
RussianReplaceMatches(o, matches, k, alternatives) ==
  IF k = 0 THEN {o}
  ELSE LET matched == Slice(o.text, matches[k].start, matches[k].end)
           cased(alt) == IF IsUpperChar(matched[1]) THEN Capitalize(alt) ELSE alt
       IN  UNION { IF hit
                   THEN UNION { RussianReplaceMatches(
                                  [text  |-> Splice(o.text, matches[k], cased(alt)),
                                   edits |-> Append(o.edits,
                                               [matched |-> matched, alternative |-> alt,
                                                replacement |-> cased(alt)])],
                                  matches, k - 1, alternatives)
                              : alt \in random_choice(alternatives) }
                   ELSE RussianReplaceMatches(o, matches, k - 1, alternatives)
                 : hit \in random_below }

\* matches = list(pattern.finditer(result)) and the loop over them
RussianReplaceAll(o, matches, alternatives) ==
  RussianReplaceMatches(o, matches, Len(matches), alternatives)

\* one turn of the loop  for stigma, alternatives in russian_stigmas.items()
\* (entry = << stigma, alternatives >>), over every outcome so far
RussianPass(outcomes, entry) ==
  UNION { RussianReplaceAll(o, finditer(PhrasePattern(entry[1]), o.text, 0), entry[2])
          : o \in outcomes }

RECURSIVE RussianPasses(_, _)
RussianPasses(outcomes, i) ==
  IF i > Len(russian_stigmas) THEN outcomes
  ELSE RussianPasses(RussianPass(outcomes, russian_stigmas[i]), i + 1)

\* str.replace(old, new): every occurrence, left to right, without overlap
RECURSIVE ReplaceFrom(_, _, _, _)
ReplaceFrom(t, old, new, p) ==
  LET at == Find(t, old, p)
  IN  IF at = -1 THEN Slice(t, p, Len(t))
      ELSE Slice(t, p, at) \o new \o ReplaceFrom(t, old, new, at + Len(old))

\* str.replace(old, new, 1): the first occurrence only
Replace_first_only(t, old, new) ==
  LET at == Find(t, old, 0)
  IN  IF at = -1 THEN t
      ELSE Slice(t, 0, at) \o new \o Slice(t, at + Len(old), Len(t))

Replace(t, old, new) == ReplaceFrom(t, old, new, 0)

\* the five result.replace(...) of lines 235-239, from the i-th on
RECURSIVE ReduceFormality(_, _)
ReduceFormality(t, i) ==
  IF i > Len(formality) THEN t
  ELSE ReduceFormality(Replace(t, formality[i][1], formality[i][2]), i + 1)

\* _humanize_russian(text, apply_variations).  The loop over the lines
\* (242-252) appends every line unchanged, whatever random.random() gives.
_humanize_russian(t, variations) ==
  { [o EXCEPT !.text = Join(Split(ReduceFormality(o.text, 1), <<10>>), <<10>>)]
    : o \in IF variations THEN RussianPasses({[text |-> t, edits |-> <<>>]}, 1)
            ELSE {[text |-> t, edits |-> <<>>]} }

\* humanize_text running the stigma and contraction passes whatever the flag
humanize_text_always_varied(t, lang, variations) ==
  IF t = <<>> THEN {[text |-> t, edits |-> <<>>]}
  ELSE IF lang = "ru" THEN _humanize_russian(t, variations)
  ELSE { [o EXCEPT !.text = _reduce_enthusiasm(_vary_sentence_structure(o.text))]
         : o \in UNION { _add_natural_variations(destigmatized)
                         : destigmatized \in _replace_stigma_phrases(t) } }

\* humanize_text leaving a text in a language it has no rules for as it is
humanize_text_unsupported_untouched(t, lang, variations) ==
  IF t = <<>> THEN {[text |-> t, edits |-> <<>>]}
  ELSE IF lang = "ru" THEN _humanize_russian(t, variations)
  ELSE IF lang # "en" THEN {[text |-> t, edits |-> <<>>]}
  ELSE { [o EXCEPT !.text = _reduce_enthusiasm(_vary_sentence_structure(o.text))]
         : o \in IF variations
                 THEN UNION { _add_natural_variations(destigmatized)
                              : destigmatized \in _replace_stigma_phrases(t) }
                 ELSE {[text |-> t, edits |-> <<>>]} }

\* humanize_text(text, language, apply_variations)
humanize_text(t, lang, variations) ==
  IF t = <<>> THEN {[text |-> t, edits |-> <<>>]}
  ELSE IF lang = "ru" THEN _humanize_russian(t, variations)
  ELSE { [o EXCEPT !.text = _reduce_enthusiasm(_vary_sentence_structure(o.text))]
         : o \in IF variations
                 THEN UNION { _add_natural_variations(destigmatized)
                              : destigmatized \in _replace_stigma_phrases(t) }
                 ELSE {[text |-> t, edits |-> <<>>]} }

\* the buzzwords of check_ai_score
buzzwords ==
  << <<108, 101, 118, 101, 114, 97, 103, 101>>,  \* "leverage"
     <<117, 116, 105, 108, 105, 122, 101>>,  \* "utilize"
     <<114, 111, 98, 117, 115, 116>>,  \* "robust"
     <<99, 117, 116, 116, 105, 110, 103, 45, 101, 100, 103, 101>>,  \* "cutting-edge"
     <<115, 116, 97, 116, 101, 45, 111, 102, 45, 116, 104, 101, 45, 97, 114, 116>>,  \* "state-of-the-art"
     <<115, 101, 97, 109, 108, 101, 115, 115, 108, 121>>,  \* "seamlessly"
     <<115, 121, 110, 101, 114, 103, 121>>,  \* "synergy"
     <<112, 97, 114, 97, 100, 105, 103, 109>>,  \* "paradigm"
     <<112, 114, 111, 97, 99, 116, 105, 118, 101>>,  \* "proactive"
     <<103, 97, 109, 101, 45, 99, 104, 97, 110, 103, 101, 114>> >>  \* "game-changer"

\* "Dear Sir or Madam"
DEAR_SIR_OR_MADAM == <<68, 101, 97, 114, 32, 83, 105, 114, 32, 111, 114, 32, 77, 97, 100, 97, 109>>

\* len(text.split()): the number of maximal runs of non-whitespace
WordCount(t) ==
  Cardinality({i \in 1..Len(t) :
                 ~IsSpaceChar(t[i]) /\ (i = 1 \/ IsSpaceChar(t[i - 1]))})

\* sum(len(re.findall(r'\b' + word + r'\b', text, re.IGNORECASE)) ...), from
\* the i-th buzzword on
RECURSIVE BuzzwordCount(_, _)
BuzzwordCount(t, i) ==
  IF i > Len(buzzwords) THEN 0
  ELSE Len(findall(PhrasePattern(buzzwords[i]), t)) + BuzzwordCount(t, i + 1)

\* re.split(r'[.!?]+', text), from offset p on
IsStop(c) == c = 46 \/ c = 33 \/ c = 63

RECURSIVE StopRunEnd(_, _)
StopRunEnd(t, p) == IF p < Len(t) /\ IsStop(t[p + 1]) THEN StopRunEnd(t, p + 1) ELSE p

RECURSIVE SplitSentences(_, _)
SplitSentences(t, p) ==
  LET stops == {at \in p..(Len(t) - 1) : IsStop(t[at + 1])}
  IN  IF stops = {} THEN <<Slice(t, p, Len(t))>>
      ELSE LET at == CHOOSE at \in stops : \A other \in stops : at <= other
           IN  <<Slice(t, p, at)>> \o SplitSentences(t, StopRunEnd(t, at))

\* [s.strip()[:10] for s in sentences if s.strip()], from the k-th sentence
RECURSIVE Starters(_, _)
Starters(sentences, k) ==
  IF k > Len(sentences) THEN <<>>
  ELSE LET s == Strip(sentences[k])
       IN  (IF s # <<>> THEN <<SubSeq(s, 1, IF Len(s) < 10 THEN Len(s) ELSE 10)>>
            ELSE <<>>) \o Starters(sentences, k + 1)

\* one rule of check_ai_score: what it adds when it fires
Rule(fires, points, flag, suggestion) ==
  IF fires THEN [score |-> points, flags |-> <<flag>>, suggestions |-> <<suggestion>>]
  ELSE [score |-> 0, flags |-> <<>>, suggestions |-> <<>>]

\* Repetitive firing at 60 % of distinct starters already
Repetitive_at_most(sentence_starters) ==
  /\ Len(sentence_starters) > 3
  /\ 5 * Cardinality(Elements(sentence_starters)) <= 3 * Len(sentence_starters)

\* lines 293-295: more than three starters, under 60 % of them distinct
Repetitive(sentence_starters) ==
  /\ Len(sentence_starters) > 3
  /\ 5 * Cardinality(Elements(sentence_starters)) < 3 * Len(sentence_starters)

\* Dense firing at 5 % of buzzwords already
Dense_at_least(buzzword_count, word_count) ==
  word_count > 0 /\ 20 * buzzword_count >= word_count

\* lines 283-285: more than 5 % of the words are buzzwords
Dense(buzzword_count, word_count) ==
  word_count > 0 /\ 20 * buzzword_count > word_count

\* the four checks of the English branch (lines 270-311), in order.
\* buzzword_count / word_count > 0.05 and unique_starters /
\* len(sentence_starters) < 0.6 compare doubles; for counts of this size they
\* agree with the exact comparisons 20 b > w and 5 u < 3 n.
EnglishRules(t) ==
  << Rule(Dense(BuzzwordCount(t, 1), WordCount(t)), 30,
          "High buzzword density", "Replace buzzwords with natural language"),
     Rule(Repetitive(Starters(SplitSentences(t, 0), 1)), 20,
          "Repetitive sentence structure", "Vary sentence beginnings"),
     Rule(Count(t, 33) > 2, 15,
          "Excessive enthusiasm markers", "Reduce exclamation marks"),
     Rule(IsSubstr(DEAR_SIR_OR_MADAM, t), 10,
          "Overly formal opening", "Use more natural greeting") >>

\* the score as it stands after the rules that fired
RECURSIVE Score(_)
Score(rules) == IF rules = <<>> THEN 0 ELSE rules[1].score + Score(Tail(rules))

\* Flags listing the latest rule first
RECURSIVE Flags_reversed(_)
Flags_reversed(rules) ==
  IF rules = <<>> THEN <<>> ELSE Flags_reversed(Tail(rules)) \o rules[1].flags

RECURSIVE Flags(_)
Flags(rules) == IF rules = <<>> THEN <<>> ELSE rules[1].flags \o Flags(Tail(rules))

RECURSIVE Suggestions(_)
Suggestions(rules) ==
  IF rules = <<>> THEN <<>> ELSE rules[1].suggestions \o Suggestions(Tail(rules))

\* Verdict calling a score of 50 likely AI
Verdict_at_fifty(score, flags, suggestions) ==
  [score        |-> IF score < 100 THEN score ELSE 100,
   flags        |-> flags,
   suggestions  |-> suggestions,
   is_likely_ai |-> score >= 50]

\* the dict returned (lines 313-318)
Verdict(score, flags, suggestions) ==
  [score        |-> IF score < 100 THEN score ELSE 100,
   flags        |-> flags,
   suggestions  |-> suggestions,
   is_likely_ai |-> score > 50]

Assess(rules) == Verdict(Score(rules), Flags(rules), Suggestions(rules))

\* check_ai_score applying the English rules to every language
check_ai_score_any_language(t, lang) == Assess(EnglishRules(t))

\* check_ai_score(text, language)
check_ai_score(t, lang) == Assess(IF lang = "en" THEN EnglishRules(t) ELSE <<>>)

--------------------------------------------------------------------------
(* app/routes/humanizer.py                                                 *)

\* the JSON values a request body may hold for a field; Absent: no such key
Absent == [type |-> "absent"]
Null == [type |-> "null"]
Str(s) == [type |-> "string", value |-> s]
Bool(b) == [type |-> "boolean", value |-> b]

\* Field(...): the default of a required field
Required == Absent

\* the validation of one field of a request model: a value of the declared
\* type is taken, a missing key takes the default, anything else is an error
Field(v, type, default) ==
  IF v.type = type THEN [ok |-> TRUE, value |-> v.value]
  ELSE IF v.type = "absent" /\ default.type = type
       THEN [ok |-> TRUE, value |-> default.value]
       ELSE [ok |-> FALSE, value |-> <<>>]

\* class HumanizeRequest(BaseModel), built from a body
HumanizeRequest(body) ==
  [ok               |-> /\ Field(body.text, "string", Required).ok
                        /\ Field(body.language, "string", Str("en")).ok
                        /\ Field(body.apply_variations, "boolean", Bool(TRUE)).ok,
   text             |-> Field(body.text, "string", Required).value,
   language         |-> Field(body.language, "string", Str("en")).value,
   apply_variations |-> Field(body.apply_variations, "boolean", Bool(TRUE)).value]

\* class AIScoreRequest(BaseModel), built from a body
AIScoreRequest(body) ==
  [ok       |-> /\ Field(body.text, "string", Required).ok
                /\ Field(body.language, "string", Str("en")).ok,
   text     |-> Field(body.text, "string", Required).value,
   language |-> Field(body.language, "string", Str("en")).value]

\* a call into the core, as core_calls records it
CoreCall(fn, t, lang) == [fn |-> fn, text |-> t, language |-> lang]

\* HumanizeResponse with the two scores in each other's place
HumanizeResponse_scores_swapped(original, humanized, score_before, score_after) ==
  [original        |-> original,
   humanized       |-> humanized,
   ai_score_before |-> score_after,
   ai_score_after  |-> score_before]

\* HumanizeResponse(original=..., humanized=..., ai_score_before=..., ai_score_after=...)
HumanizeResponse(original, humanized, score_before, score_after) ==
  [original        |-> original,
   humanized       |-> humanized,
   ai_score_before |-> score_before,
   ai_score_after  |-> score_after]

\* humanize_text_endpoint(request), for a request that passed validation:
\* its outcomes over the draws of humanize_text
humanize_text_endpoint(req) ==
  { [response |-> HumanizeResponse(req.text, o.text,
                                   check_ai_score(req.text, req.language),
                                   check_ai_score(o.text, req.language)),
     edits    |-> o.edits,
     calls    |-> << CoreCall("check_ai_score", req.text, req.language),
                     CoreCall("humanize_text", req.text, req.language),
                     CoreCall("check_ai_score", o.text, req.language) >>]
    : o \in humanize_text(req.text, req.language, req.apply_variations) }

\* check_ai_score_endpoint(request), for a request that passed validation
check_ai_score_endpoint(req) ==
  [response |-> check_ai_score(req.text, req.language),
   calls    |-> << CoreCall("check_ai_score", req.text, req.language) >>]

--------------------------------------------------------------------------
(* app/services/rag_service.py                                             *)
(*                                                                         *)
(* The enum values (LanguageCode.value, TargetRole.value) and the metadata *)
(* tags are TLA+ strings; file names and contents are Python strs.  A call *)
(* of the embedding provider either raises or answers with an embedding.   *)

\* an embedding as the provider sent it: a list of numbers, or (numeric =
\* FALSE) a list holding something numpy cannot multiply
Embedding(vector) == [numeric |-> TRUE, vector |-> vector]
Malformed(vector) == [numeric |-> FALSE, vector |-> vector]

\* the test  word in filename_lower
In(word, filename_lower) == IsSubstr(word, filename_lower)

\* _extract_metadata(filename, content)
_extract_metadata(filename, content) ==
  LET f == Lower(filename)
      russian == In(<<114, 117, 115, 115, 105, 97, 110>>, f)
      us == In(<<117, 115>>, f)
      uk == In(<<117, 107>>, f)
      languages == (IF russian THEN <<"ru">> ELSE <<>>)
                  \o (IF In(<<101, 110, 103, 108, 105, 115, 104>>, f) \/ us \/ uk THEN <<"en">> ELSE <<>>)
      markets == (IF russian THEN <<"ru">> ELSE <<>>)
                \o (IF us THEN <<"us">> ELSE <<>>)
                \o (IF uk THEN <<"uk">> ELSE <<>>)
                \o (IF In(<<103, 101, 110, 101, 114, 97, 108>>, f) \/ ~(russian \/ us \/ uk)
                    THEN <<"general">> ELSE <<>>)
      backend == In(<<98, 97, 99, 107, 101, 110, 100>>, f)
      fullstack == In(<<102, 117, 108, 108, 115, 116, 97, 99, 107>>, f)
      gpt == In(<<103, 112, 116>>, f) \/ In(<<101, 110, 103, 105, 110, 101, 101, 114>>, f)
      industries == (IF In(<<116, 101, 99, 104>>, f) THEN <<"tech">> ELSE <<>>)
                  \o (IF backend THEN <<"tech">> ELSE <<>>)
                  \o (IF fullstack THEN <<"tech">> ELSE <<>>)
                  \o (IF gpt THEN <<"tech">> ELSE <<>>)
      roles == (IF backend THEN <<"backend">> ELSE <<>>)
              \o (IF fullstack THEN <<"fullstack">> ELSE <<>>)
              \o (IF gpt THEN <<"gpt_engineer">> ELSE <<>>)
  IN  [language |-> IF languages = <<>> THEN <<"general">> ELSE languages,
       market   |-> IF markets = <<>> THEN <<"general">> ELSE markets,
       industry |-> IF industries = <<>> THEN <<"general">> ELSE industries,
       role     |-> roles,
       category |-> IF In(<<103, 117, 105, 100, 101, 108, 105, 110, 101, 115>>, f) \/ In(<<98, 101, 115, 116, 95, 112, 114, 97, 99, 116, 105, 99, 101, 115>>, f) THEN "guidelines"
                    ELSE IF In(<<97, 116, 115>>, f) THEN "ats"
                    ELSE IF In(<<102, 111, 114, 109, 97, 116, 116, 105, 110, 103>>, f) \/ In(<<101, 120, 97, 109, 112, 108, 101, 115>>, f) THEN "formatting"
                    ELSE "general"]

\* the loop of _load_knowledge_base over the files glob("*.md") yields, from
\* the k-th on; a file that cannot be read is skipped (lines 54-68)
RECURSIVE LoadFiles(_, _)
LoadFiles(files, k) ==
  IF k > Len(files) THEN <<>>
  ELSE (IF files[k].readable
        THEN << [path     |-> <<107, 110, 111, 119, 108, 101, 100, 103, 101, 95, 98, 97, 115, 101, 47>> \o files[k].name,
                 name     |-> SubSeq(files[k].name, 1, Len(files[k].name) - 3),
                 content  |-> files[k].content,
                 metadata |-> _extract_metadata(files[k].name, files[k].content)] >>
        ELSE <<>>) \o LoadFiles(files, k + 1)

\* _load_knowledge_base(): the documents of a directory
\* [exists |-> ..., files |-> the *.md files in the order glob yields them]
_load_knowledge_base(directory) ==
  IF ~directory.exists THEN <<>> ELSE LoadFiles(directory.files, 1)

\* RAGService(): the object __init__ leaves (lines 30-42)
RAGService(settings, directory) ==
  [client           |-> settings.OPENAI_API_KEY # "",
   embeddings_cache |-> <<>>,
   documents        |-> _load_knowledge_base(directory)]

\* text[:n]
Truncate(t, n) == SubSeq(t, 1, IF Len(t) < n THEN Len(t) ELSE n)

\* line 149: the cache key is the first 100 characters of the text
CacheKeyLength == 100

\* the embeddings provider as the service sees it: the answers it is going
\* to give to the next calls of client.embeddings.create (an embedding, or
\* the exception raised), and the calls it has received
Provider(script, calls) == [script |-> script, calls |-> calls]

\* _get_embedding that stores under the whole text
_get_embedding_whole_text_key(self, provider, t) ==
  IF ~self.client THEN [self |-> self, provider |-> provider, value |-> Embedding(<<>>)]
  ELSE IF t \in DOMAIN self.embeddings_cache
  THEN [self |-> self, provider |-> provider, value |-> self.embeddings_cache[t]]
  ELSE LET answer == Head(provider.script)
           called == Provider(Tail(provider.script),
                              Append(provider.calls, [input |-> t, answer |-> answer]))
       IN  IF answer.raised = "none"
           THEN [self     |-> [self EXCEPT !.embeddings_cache = @ @@ (t :> answer.value)],
                 provider |-> called,
                 value    |-> answer.value]
           ELSE [self |-> self, provider |-> called, value |-> Embedding(<<>>)]

\* RAGService._get_embedding(text): the service and the provider after the
\* call, and the value returned
_get_embedding(self, provider, t) ==
  IF ~self.client THEN [self |-> self, provider |-> provider, value |-> Embedding(<<>>)]
  ELSE LET cache_key == Truncate(t, CacheKeyLength)
       IN  IF cache_key \in DOMAIN self.embeddings_cache
           THEN [self |-> self, provider |-> provider,
                 value |-> self.embeddings_cache[cache_key]]
           ELSE LET answer == Head(provider.script)
                    called == Provider(Tail(provider.script),
                                       Append(provider.calls, [input |-> t, answer |-> answer]))
                IN  IF answer.raised = "none"
                    THEN [self     |-> [self EXCEPT !.embeddings_cache =
                                                      @ @@ (cache_key :> answer.value)],
                          provider |-> called,
                          value    |-> answer.value]
                    ELSE [self |-> self, provider |-> called, value |-> Embedding(<<>>)]

RECURSIVE Dot(_, _)
\* np.dot of two vectors of one length
Dot(a, b) == IF a = <<>> THEN 0 ELSE Head(a) * Head(b) + Dot(Tail(a), Tail(b))

\* np.linalg.norm of a vector whose length is a whole number
Norm(v) == CHOOSE n \in 0..Dot(v, v) : n * n = Dot(v, v)

\* RAGService._cosine_similarity: the exact quotient num/den, 0.0 as 0/1;
\* numpy raises on a list that does not hold numbers
_cosine_similarity(vec1, vec2) ==
  IF vec1.vector = <<>> \/ vec2.vector = <<>> \/ Len(vec1.vector) # Len(vec2.vector)
  THEN Returned([num |-> 0, den |-> 1])
  ELSE IF ~vec1.numeric \/ ~vec2.numeric THEN Raised("TypeError")
  ELSE LET norm1 == Norm(vec1.vector)
           norm2 == Norm(vec2.vector)
       IN  IF norm1 = 0 \/ norm2 = 0 THEN Returned([num |-> 0, den |-> 1])
           ELSE Returned([num |-> Dot(vec1.vector, vec2.vector), den |-> norm1 * norm2])

\* lines 210-228: the documents whose metadata match language and role
FilterDocs(documents, language_str, role_str) ==
  LET Match(doc) ==
        /\ \/ language_str \in Elements(doc.metadata.language)
           \/ "general" \in Elements(doc.metadata.language)
        /\ \/ role_str \in Elements(doc.metadata.role)
           \/ "general" \in Elements(doc.metadata.role)
           \/ doc.metadata.role = <<>>
  IN  SelectSeq(documents, Match)

RECURSIVE ScoreDocs(_, _, _, _, _, _)
\* lines 240-245: the loop over filtered_docs from the k-th on; scored is
\* scored_docs so far.  An exception ends the loop with what the calls
\* before it have done to the cache.
ScoreDocs(self, provider, job_embedding, docs, k, scored) ==
  IF k > Len(docs)
  THEN [self |-> self, provider |-> provider, raised |-> "none", scored |-> scored]
  ELSE LET doc == docs[k]
           got == _get_embedding(self, provider,
                                 doc.name \o <<32>> \o Truncate(doc.content, 500))
           similarity == _cosine_similarity(job_embedding, got.value)
       IN  IF similarity.raised # "none"
           THEN [self |-> got.self, provider |-> got.provider,
                 raised |-> similarity.raised, scored |-> scored]
           ELSE ScoreDocs(got.self, got.provider, job_embedding, docs, k + 1,
                          Append(scored, [similarity |-> similarity.value, doc |-> doc]))

\* x[0] of one entry of scored_docs above that of another
Above(a, b) == a.similarity.num * b.similarity.den > b.similarity.num * a.similarity.den

RECURSIVE SortBySimilarity(_)
\* scored_docs.sort(key=lambda x: x[0], reverse=True): the sort is stable,
\* entries of one similarity keep their order
SortBySimilarity(scored) ==
  IF scored = <<>> THEN <<>>
  ELSE LET rest == SortBySimilarity(Tail(scored))
           x == Head(scored)
           ahead == {i \in 1..Len(rest) : Above(rest[i], x)}
           n == Cardinality(ahead)
       IN  SubSeq(rest, 1, n) \o <<x>> \o SubSeq(rest, n + 1, Len(rest))

\* [doc["content"] for doc in docs]
Contents(docs) == [i \in 1..Len(docs) |-> docs[i].content]

\* retrieve_best_practices returning, after an exception, the documents
\* scored before it
retrieve_best_practices_partial(self, provider, lang, target_role, jd, top_k) ==
  IF self.documents = <<>>
  THEN [self |-> self, provider |-> provider, value |-> <<>>, failed |-> FALSE]
  ELSE LET matching == FilterDocs(self.documents, lang, target_role)
           filtered_docs == IF matching = <<>> THEN self.documents ELSE matching
           fallback == Contents(Truncate(filtered_docs, top_k))
       IN  IF jd # <<>> /\ self.client
           THEN LET job == _get_embedding(self, provider, Truncate(jd, 1000))
                    run == ScoreDocs(job.self, job.provider, job.value, filtered_docs, 1, <<>>)
                    top_docs == [i \in 1..Len(Truncate(run.scored, top_k)) |->
                                   SortBySimilarity(run.scored)[i].doc]
                IN  [self |-> run.self, provider |-> run.provider,
                     value |-> Contents(top_docs),
                     failed |-> run.raised # "none"]
           ELSE [self |-> self, provider |-> provider, value |-> fallback, failed |-> FALSE]

\* RAGService.retrieve_best_practices(language, target_role, job_description,
\* top_k): the service and the provider after the call, the contents
\* returned, and whether the semantic search raised (line 252)
retrieve_best_practices(self, provider, lang, target_role, jd, top_k) ==
  IF self.documents = <<>>
  THEN [self |-> self, provider |-> provider, value |-> <<>>, failed |-> FALSE]
  ELSE LET matching == FilterDocs(self.documents, lang, target_role)
           filtered_docs == IF matching = <<>> THEN self.documents ELSE matching
           fallback == Contents(Truncate(filtered_docs, top_k))
       IN  IF jd # <<>> /\ self.client
           THEN LET job == _get_embedding(self, provider, Truncate(jd, 1000))
                    run == ScoreDocs(job.self, job.provider, job.value, filtered_docs, 1, <<>>)
                    top_docs == [i \in 1..Len(Truncate(run.scored, top_k)) |->
                                   SortBySimilarity(run.scored)[i].doc]
                IN  [self |-> run.self, provider |-> run.provider,
                     value |-> IF run.raised = "none" THEN Contents(top_docs) ELSE fallback,
                     failed |-> run.raised # "none"]
           ELSE [self |-> self, provider |-> provider, value |-> fallback, failed |-> FALSE]

\* a thread that has not called get_rag_service yet
NotReturned == [raised |-> "not called", value |-> <<>>]

IdleThread == [pc |-> "idle", created |-> 0, returned |-> NotReturned, calls |-> 0]

--------------------------------------------------------------------------
(* app/services/resume_formatter.py                                        *)

\* the characters str.splitlines() ends a line at
IsLineBreak(c) == c \in {10, 11, 12, 13, 28, 29, 30, 133, 8232, 8233}

\* the characters \s matches, among those of the texts modelled
Whitespace == {c \in 0..32 : IsSpaceChar(c)}

RECURSIVE SplitLinesFrom(_, _)
\* the lines of t from the offset start on; "\r\n" ends a line as one break
SplitLinesFrom(t, start) ==
  LET breaks == {p \in start..(Len(t) - 1) : IsLineBreak(t[p + 1])}
  IN  IF breaks = {}
      THEN IF start < Len(t) THEN <<Slice(t, start, Len(t))>> ELSE <<>>
      ELSE LET p == CHOOSE p \in breaks : \A other \in breaks : p <= other
               next == IF t[p + 1] = 13 /\ p + 1 < Len(t) /\ t[p + 2] = 10
                       THEN p + 2 ELSE p + 1
           IN  <<Slice(t, start, p)>> \o SplitLinesFrom(t, next)

\* str.splitlines()
SplitLines(t) == SplitLinesFrom(t, 0)

\* how many characters of the set S the text t starts with, and ends with
LeadingCount(t, S) ==
  CHOOSE n \in 0..Len(t) : /\ \A i \in 1..n : t[i] \in S
                           /\ n = Len(t) \/ t[n + 1] \notin S
TrailingCount(t, S) ==
  CHOOSE n \in 0..Len(t) : /\ \A i \in (Len(t) - n + 1)..Len(t) : t[i] \in S
                           /\ n = Len(t) \/ t[Len(t) - n] \notin S

\* re.match(r'^[-_=]{3,}$', stripped)
IsDividerLine(stripped) ==
  /\ Len(stripped) >= 3
  /\ \A i \in 1..Len(stripped) : stripped[i] \in {45, 95, 61}

\* re.sub(r'^[-]{2,}\s*', '', line)
DropLeadingDashes(line) ==
  LET dashes == LeadingCount(line, {45})
      rest == SubSeq(line, dashes + 1, Len(line))
  IN  IF dashes >= 2
      THEN SubSeq(rest, LeadingCount(rest, Whitespace) + 1, Len(rest))
      ELSE line

\* re.sub(r'\s*[-]{2,}$', '', cleaned)
DropTrailingDashes(line) ==
  LET dashes == TrailingCount(line, {45})
      rest == SubSeq(line, 1, Len(line) - dashes)
  IN  IF dashes >= 2
      THEN SubSeq(rest, 1, Len(rest) - TrailingCount(rest, Whitespace))
      ELSE line

RECURSIVE CleanLines(_, _)
\* lines 22-32: the loop over lines, from the k-th on
CleanLines(lines, k) ==
  IF k > Len(lines) THEN <<>>
  ELSE IF IsDividerLine(Strip(lines[k])) THEN CleanLines(lines, k + 1)
  ELSE <<DropTrailingDashes(DropLeadingDashes(lines[k]))>> \o CleanLines(lines, k + 1)

RECURSIVE CollapseEmpty(_, _, _)
\* lines 38-47: the loop over cleaned_lines, from the k-th on
CollapseEmpty(cleaned_lines, k, prev_empty) ==
  IF k > Len(cleaned_lines) THEN <<>>
  ELSE IF Strip(cleaned_lines[k]) = <<>>
  THEN (IF prev_empty THEN <<>> ELSE << <<>> >>) \o CollapseEmpty(cleaned_lines, k + 1, TRUE)
  ELSE <<cleaned_lines[k]>> \o CollapseEmpty(cleaned_lines, k + 1, FALSE)

RECURSIVE TrimEmptyLines(_)
\* lines 50-53: empty lines popped off both ends
TrimEmptyLines(result_lines) ==
  IF result_lines = <<>> THEN <<>>
  ELSE IF Strip(Head(result_lines)) = <<>> THEN TrimEmptyLines(Tail(result_lines))
  ELSE IF Strip(result_lines[Len(result_lines)]) = <<>>
  THEN TrimEmptyLines(SubSeq(result_lines, 1, Len(result_lines) - 1))
  ELSE result_lines

\* clean_resume_text(text)
clean_resume_text(t) ==
  Join(TrimEmptyLines(CollapseEmpty(CleanLines(SplitLines(t), 1), 1, FALSE)), <<10>>)

\* re.match(r'^\d{4}\s*[–-]\s*\d{4}$', next_line), on ASCII digits
IsDateRange(s) ==
  /\ Len(s) >= 9
  /\ \A i \in 1..4 : IsDigit(s[i])
  /\ \A i \in (Len(s) - 3)..Len(s) : IsDigit(s[i])
  /\ LET mid == SubSeq(s, 5, Len(s) - 4)
         before == LeadingCount(mid, Whitespace)
     IN  /\ before < Len(mid)
         /\ mid[before + 1] \in {8211, 45}
         /\ \A i \in (before + 2)..Len(mid) : mid[i] \in Whitespace

RECURSIVE FormatLines(_, _)
\* lines 76-101: the loop  while i < len(lines), i counted from 1
FormatLines(lines, i) ==
  IF i > Len(lines) THEN <<>>
  ELSE IF i + 1 <= Len(lines) /\ IsDateRange(Strip(lines[i + 1]))
  THEN <<Strip(lines[i]) \o <<32, 32>> \o Strip(lines[i + 1])>> \o FormatLines(lines, i + 2)
  ELSE <<Strip(lines[i])>> \o FormatLines(lines, i + 1)

\* format_dates_on_right(text)
format_dates_on_right(t) == Join(FormatLines(SplitLines(t), 1), <<10>>)

--------------------------------------------------------------------------
(* app/services/llm_client.py and app/services/tailor.py                   *)
(*                                                                         *)
(* A call runs in a world w: the global RAG service and the objects made   *)
(* so far, the embeddings provider, whether RAGService() succeeds, the     *)
(* answers the chat completions API is going to give, and the histories of *)
(* the calls made.  A function returns the worlds it may leave, each with  *)
(* what the call handed back.                                              *)

\* LanguageCode.value, TargetRole.value as Python strs
EnumText(v) ==
  CASE v = "en" -> <<101, 110>>
    [] v = "ru" -> <<114, 117>>
    [] v = "backend" -> <<98, 97, 99, 107, 101, 110, 100>>
    [] v = "fullstack" -> <<102, 117, 108, 108, 115, 116, 97, 99, 107>>
    [] v = "gpt_engineer" -> <<103, 112, 116, 95, 101, 110, 103, 105, 110, 101, 101, 114>>

RECURSIVE Decimal(_)
\* str(n) of an int n >= 0
Decimal(n) == IF n < 10 THEN <<48 + n>> ELSE Decimal(n \div 10) \o <<48 + (n % 10)>>

\* "=" * 50
Divider == [i \in 1..50 |-> 61]

RECURSIVE Practices(_, _)
\* lines 99-102: the loop over enumerate(best_practices, 1), from the i-th on
Practices(best_practices, i) ==
  IF i > Len(best_practices) THEN <<>>
  ELSE LET practice == best_practices[i]
           practice_text == IF Len(practice) > 1000
                            THEN Truncate(practice, 1000) \o <<46, 46, 46>>
                            ELSE practice
       IN  <<10, 91, 66, 101, 115, 116, 32, 80, 114, 97, 99, 116, 105, 99, 101, 32>> \o Decimal(i) \o <<93, 10>> \o practice_text \o <<10>>
           \o Practices(best_practices, i + 1)

\* lines 95-103: rag_context for the best practices retrieved
RagContext(best_practices) ==
  IF best_practices = <<>> THEN <<>>
  ELSE <<10, 10, 77, 65, 82, 75, 69, 84, 45, 83, 80, 69, 67, 73, 70, 73, 67, 32, 66, 69, 83, 84, 32, 80, 82, 65, 67, 84, 73, 67, 69, 83, 58, 10>> \o Divider \o <<10>>
       \o Practices(best_practices, 1) \o Divider \o <<10>>

\* one humanize_text call as the tailoring flow made it
HumanizeCall(t, lang, variations, result) ==
  [fn |-> "humanize_text", text |-> t, language |-> lang,
   apply_variations |-> variations, result |-> result]

\* lines 83-110: the RAG block.  rag tells what the block did, best_practices
\* what retrieve_best_practices returned
RagBlock(w, settings, directory, lang, target, jd) ==
  IF ~settings.RAG_ENABLED
  THEN [w |-> w, rag |-> "disabled", best_practices |-> <<>>]
  ELSE IF w._rag_service = 0 /\ w.creation = "raise"
  THEN [w |-> w, rag |-> "create failed", best_practices |-> <<>>]
  ELSE LET made == IF w._rag_service # 0 THEN w
                   ELSE [w EXCEPT !.rag_services = Append(@, RAGService(settings, directory)),
                                  !._rag_service = Len(w.rag_services) + 1]
           got == retrieve_best_practices(made.rag_services[made._rag_service], made.provider,
                                          lang, target, jd, settings.RAG_TOP_K)
       IN  [w |-> [made EXCEPT !.rag_services[made._rag_service] = got.self,
                               !.provider = got.provider],
            rag |-> IF got.failed THEN "search failed" ELSE "retrieved",
            best_practices |-> got.value]

\* the least length of a response taken for a resume (line 230)
MinResponseLength == 50

\* str(e) of the exception the chat completions API raised
ApiErrorMessage == <<67, 111, 110, 110, 101, 99, 116, 105, 111, 110, 32, 101, 114, 114, 111, 114, 46>>

\* lines 218-222 and 235-238: the texts returned in place of a resume
ApiErrorFallback(base_resume_text) ==
  <<91, 84, 65, 73, 76, 79, 82, 73, 78, 71, 32, 70, 65, 73, 76, 69, 68, 32, 45, 32, 65, 80, 73, 32, 69, 114, 114, 111, 114, 93, 10, 69, 114, 114, 111, 114, 58, 32>> \o ApiErrorMessage
  \o <<10, 10, 79, 114, 105, 103, 105, 110, 97, 108, 32, 114, 101, 115, 117, 109, 101, 58, 10>> \o base_resume_text
EmptyResponseFallback(base_resume_text) ==
  <<91, 84, 65, 73, 76, 79, 82, 73, 78, 71, 32, 70, 65, 73, 76, 69, 68, 32, 45, 32, 69, 109, 112, 116, 121, 32, 82, 101, 115, 112, 111, 110, 115, 101, 93, 10, 10, 79, 114, 105, 103, 105, 110, 97, 108, 32, 114, 101, 115, 117, 109, 101, 58, 10>> \o base_resume_text

\* lines 254-257 only: the response cleaned and formatted, not humanized
PostProcess_not_humanized(w, formatted, lang) ==
  {[w |-> w, ret |-> Returned(formatted)]}

\* lines 254-266: the response cleaned, formatted and humanized
PostProcess(w, formatted, lang) ==
  {[w   |-> [w EXCEPT !.core_calls = Append(@, HumanizeCall(formatted, lang, TRUE, o.text))],
    ret |-> Returned(o.text)] : o \in humanize_text(formatted, lang, TRUE)}

\* lines 196-266: the call of the chat completions API and what is made of
\* its answer
Complete(w, base_resume_text, lang) ==
  LET answer == Head(w.llm_script)
      after == [w EXCEPT !.llm_script = Tail(@)]
  IN  IF answer.raised # "none"
      THEN {[w |-> after, ret |-> Returned(ApiErrorFallback(base_resume_text))]}
      ELSE IF Len(Strip(answer.value)) < MinResponseLength
      THEN {[w |-> after, ret |-> Returned(EmptyResponseFallback(base_resume_text))]}
      ELSE PostProcess(after, format_dates_on_right(clean_resume_text(Strip(answer.value))), lang)

\* the world after the RAG block, with the call of the API entered in llm_calls
Prompted(block, lang, target) ==
  [block.w EXCEPT !.llm_calls =
     Append(@, [language |-> lang, target |-> target, rag |-> block.rag,
                best_practices |-> block.best_practices,
                rag_context |-> RagContext(block.best_practices)])]

\* generate_tailored_resume_llm(base_resume_text, job_description, language,
\* target, ...): _get_client() raises RuntimeError without an API key
generate_tailored_resume_llm(w, settings, directory, base_resume_text, jd, lang, target) ==
  IF settings.OPENAI_API_KEY = ""
  THEN {[w |-> w, ret |-> Raised("RuntimeError")]}
  ELSE Complete(Prompted(RagBlock(w, settings, directory, lang, target, jd), lang, target),
                base_resume_text, lang)

\* tailor.py lines 42-48
use_llm(settings) ==
  LET explicit_flag == Lower(settings.RESUMEKIT_USE_OPENAI)
      has_api_key == settings.OPENAI_API_KEY # ""
  IN  \/ explicit_flag \in {<<49>>, <<116, 114, 117, 101>>, <<121, 101, 115>>}
      \/ has_api_key /\ explicit_flag \notin {<<48>>, <<102, 97, 108, 115, 101>>, <<110, 111>>}

RECURSIVE StripAll(_)
\* [line.strip() for line in lines if line.strip()]
StripAll(lines) ==
  IF lines = <<>> THEN <<>>
  ELSE IF Strip(Head(lines)) = <<>> THEN StripAll(Tail(lines))
  ELSE <<Strip(Head(lines))>> \o StripAll(Tail(lines))

\* _build_stub_content(language, target, base_resume_text, job_description,
\* aggressiveness)
_build_stub_content(lang, target, base_resume_text, jd, aggressiveness) ==
  LET header == <<91, 84, 65, 73, 76, 79, 82, 69, 68, 32, 82, 69, 83, 85, 77, 69, 32, 45, 32, 108, 97, 110, 103, 61>> \o EnumText(lang) \o <<44, 32, 116, 97, 114, 103, 101, 116, 61>>
                \o EnumText(target) \o <<44, 32, 97, 103, 103, 114, 101, 115, 115, 105, 118, 101, 110, 101, 115, 115, 61>> \o Decimal(aggressiveness) \o <<93>>
      jd_snippet == Truncate(SplitLines(Strip(jd)), 3)
      jd_preview == Join(StripAll(jd_snippet), <<32>>)
  IN  Join(<< header,
              <<>>,
              <<61, 61, 61, 32, 74, 79, 66, 32, 68, 69, 83, 67, 82, 73, 80, 84, 73, 79, 78, 32, 80, 82, 69, 86, 73, 69, 87, 32, 61, 61, 61>>,
              IF jd_preview # <<>> THEN jd_preview ELSE <<40, 110, 111, 32, 106, 111, 98, 32, 100, 101, 115, 99, 114, 105, 112, 116, 105, 111, 110, 32, 112, 114, 111, 118, 105, 100, 101, 100, 41>>,
              <<>>,
              <<61, 61, 61, 32, 66, 65, 83, 69, 32, 82, 69, 83, 85, 77, 69, 32, 83, 84, 65, 82, 84, 32, 61, 61, 61>>,
              Strip(base_resume_text),
              <<61, 61, 61, 32, 66, 65, 83, 69, 32, 82, 69, 83, 85, 77, 69, 32, 69, 78, 68, 32, 61, 61, 61>> >>, <<10>>)

\* TailoredResume(language, target, content, notes)
TailoredResume(lang, target, content, notes) ==
  [language |-> lang, target |-> target, content |-> content, notes |-> notes]

\* the pairs the two loops of lines 63-64 go through, in their order
Variants(options) ==
  [n \in 1..(Len(options.languages) * Len(options.targets)) |->
     [language |-> options.languages[((n - 1) \div Len(options.targets)) + 1],
      target   |-> options.targets[((n - 1) % Len(options.targets)) + 1]]]

\* lines 81-91: one variant of stub content
StubResume(v, base_resume_text, jd, options) ==
  TailoredResume(v.language, v.target,
                 _build_stub_content(v.language, v.target, base_resume_text, jd,
                                     options.aggressiveness),
                 <<83, 116, 117, 98, 32, 116, 97, 105, 108, 111, 114, 105, 110, 103, 32, 111, 110, 108, 121, 46, 32, 76, 76, 77, 45, 98, 97, 99, 107, 101, 100, 32, 114, 101, 119, 114, 105, 116, 105, 110, 103, 32, 105, 115, 32, 100, 105, 115, 97, 98, 108, 101, 100, 32, 111, 114, 32, 110, 111, 116, 32, 99, 111, 110, 102, 105, 103, 117, 114, 101, 100, 46>>)

\* lines 69-78: one variant from what generate_tailored_resume_llm returned
LlmResume(v, content) ==
  TailoredResume(v.language, v.target, content,
                 <<71, 101, 110, 101, 114, 97, 116, 101, 100, 32, 117, 115, 105, 110, 103, 32, 79, 112, 101, 110, 65, 73, 32, 102, 111, 114, 32>> \o EnumText(v.language) \o <<46>>)

RECURSIVE TailorFrom(_, _, _, _, _, _, _, _)
\* lines 63-101: the loops from the k-th variant on, resumes being the list
\* so far; an exception of generate_tailored_resume_llm ends the call
TailorFrom(w, settings, directory, base_resume_text, jd, options, k, resumes) ==
  LET variants == Variants(options)
  IN  IF k > Len(variants) THEN {[w |-> w, ret |-> Returned(resumes)]}
      ELSE IF ~use_llm(settings)
      THEN TailorFrom(w, settings, directory, base_resume_text, jd, options, k + 1,
                      Append(resumes, StubResume(variants[k], base_resume_text, jd, options)))
      ELSE UNION {
             IF o.ret.raised # "none" THEN {o}
             ELSE TailorFrom(o.w, settings, directory, base_resume_text, jd, options, k + 1,
                             Append(resumes, LlmResume(variants[k], o.ret.value)))
             : o \in generate_tailored_resume_llm(w, settings, directory, base_resume_text, jd,
                                                  variants[k].language, variants[k].target) }

\* generate_tailored_resumes(base_resume_text, job_description, options)
generate_tailored_resumes(w, settings, directory, base_resume_text, jd, options) ==
  TailorFrom(w, settings, directory, base_resume_text, jd, options, 1, <<>>)

--------------------------------------------------------------------------
(* app/models.py and app/routes/recommend.py                               *)
(*                                                                         *)
(* A row of a table is a record of its columns, and the object the ORM     *)
(* loads from a row has the attributes its class maps.  The database is    *)
(* [users, style_presets, base_resumes, job_postings, tailored_resumes]:   *)
(* users by id, the other tables in the order of their ids.  None and the  *)
(* empty string are both <<>>: the handler tests its form fields with      *)
(* `not`, which tells them apart nowhere.  The awaits of the handler are   *)
(* where another request can run; between them a request runs alone.       *)

\* class User: the columns it maps
UserAttributes == {"id", "email", "password_hash", "created_at"}

\* the User object loaded from a row of the table users
User(row) == [c \in UserAttributes \cap DOMAIN row |-> row[c]]

\* obj.name
GetAttr(obj, name) ==
  IF name \in DOMAIN obj THEN Returned(obj[name]) ELSE Raised("AttributeError")

\* raise HTTPException(status_code=..., detail=...)
HTTPException(status_code) == [raised |-> "HTTPException", value |-> status_code]

\* the status of the response: FastAPI answers an HTTPException with its
\* status code, and main.py hands every other exception to
\* general_exception_handler
StatusCode(r) ==
  IF r.raised = "none" THEN 200
  ELSE IF r.raised = "HTTPException" THEN r.value
  ELSE 500

\* the members of the enum classes, by value
LanguageCode == {"en", "ru"}
TargetRole == {"backend", "fullstack", "gpt_engineer"}

\* _parse_comma_separated_enum(raw, enum_type, default)
_parse_comma_separated_enum(raw, enum_type, default) ==
  LET parts == Split(raw, <<44>>)
      items == SelectSeq([i \in 1..Len(parts) |-> Lower(Strip(parts[i]))],
                         LAMBDA item : item # <<>>)
      Member(item) == {v \in enum_type : EnumText(v) = item}
  IN  IF raw = <<>> THEN Returned(default)
      ELSE IF items = <<>> THEN Returned(default)
      ELSE IF \E i \in 1..Len(items) : Member(items[i]) = {} THEN HTTPException(400)
      ELSE Returned([i \in 1..Len(items) |-> CHOOSE v \in Member(items[i]) : TRUE])

\* get_preset_by_language_and_industry(db, language, industry): the active
\* preset of the language and industry, 0 for None
get_preset_by_language_and_industry(d, lang, industry) ==
  LET found == {i \in 1..Len(d.style_presets) :
                  /\ d.style_presets[i].language = lang
                  /\ d.style_presets[i].industry = industry
                  /\ d.style_presets[i].is_active}
  IN  IF found = {} THEN Returned(0)
      ELSE IF Cardinality(found) = 1 THEN Returned(CHOOSE i \in found : TRUE)
      ELSE Raised("MultipleResultsFound")

\* lines 172-193: the presets looked up until the first one found; what is
\* found only adds guidance to the LLM's system prompt
RECURSIVE PresetLookups(_, _, _, _)
PresetLookups(d, languages, industry, k) ==
  IF k > Len(languages) THEN Returned(0)
  ELSE LET preset == get_preset_by_language_and_industry(d, languages[k], industry)
       IN  IF preset.raised # "none" \/ preset.value # 0 THEN preset
           ELSE PresetLookups(d, languages, industry, k + 1)

\* lines 196-200: select count(TailoredResume.id) join BaseResume
\* where BaseResume.user_id == user_id
ResumeCount(d, user_id) ==
  Cardinality({i \in 1..Len(d.tailored_resumes) :
                 d.base_resumes[d.tailored_resumes[i].base_resume_id].user_id = user_id})

\* lines 226-245: the base resume, the job posting and one row per variant
Persist(d, user_id, base_resume, jd, resumes) ==
  LET base_id == Len(d.base_resumes) + 1
      job_id == Len(d.job_postings) + 1
  IN  [d EXCEPT !.base_resumes = Append(@, [text |-> base_resume, user_id |-> user_id]),
                !.job_postings = Append(@, [text |-> jd, user_id |-> user_id]),
                !.tailored_resumes =
                   @ \o [i \in 1..Len(resumes) |->
                           [language |-> resumes[i].language, target |-> resumes[i].target,
                            content |-> resumes[i].content, notes |-> resumes[i].notes,
                            base_resume_id |-> base_id, job_posting_id |-> job_id]]]

\* a request that is over: the response, the count the limit check read
\* (-1: the check was not reached), the variants asked for (0: the options
\* were not parsed) and the rows of tailored_resumes it added
Responded(w, d, user_id, r, resume_count, variants, persisted) ==
  [w |-> w, db |-> d,
   thread |-> [pc |-> "done", user_id |-> user_id, status_code |-> StatusCode(r),
               raised |-> r.raised, resume_count |-> resume_count,
               variants |-> variants, persisted |-> persisted]]

\* lines 195-253: the limit check, the tailoring and the rows
CheckLimitAndTailor(w, settings, directory, d, current_user, base_resume, jd, options) ==
  LET resume_count == ResumeCount(d, current_user.id)
      user_level == GetAttr(current_user, "user_level")
      variants == Len(Variants(options))
  IN  IF user_level.raised # "none"
      THEN {Responded(w, d, current_user.id, user_level, resume_count, variants, 0)}
      ELSE IF resume_count >= user_level.value
      THEN {Responded(w, d, current_user.id, HTTPException(403), resume_count, variants, 0)}
      ELSE { IF o.ret.raised # "none"
             THEN Responded(o.w, d, current_user.id, o.ret, resume_count, variants, 0)
             ELSE Responded(o.w, Persist(d, current_user.id, base_resume, jd, o.ret.value),
                            current_user.id, o.ret, resume_count, variants, Len(o.ret.value))
             : o \in generate_tailored_resumes(w, settings, directory, base_resume, jd, options) }

\* lines 147-253: from the base resume on
TailorBaseResume(w, settings, directory, d, current_user, base_resume, jd, form) ==
  LET languages_list == _parse_comma_separated_enum(form.languages, LanguageCode, <<"en", "ru">>)
      targets_list == _parse_comma_separated_enum(form.targets, TargetRole, <<"backend">>)
  IN  IF languages_list.raised # "none"
      THEN {Responded(w, d, current_user.id, languages_list, -1, 0, 0)}
      ELSE IF targets_list.raised # "none"
      THEN {Responded(w, d, current_user.id, targets_list, -1, 0, 0)}
      ELSE LET options == [languages |-> languages_list.value, targets |-> targets_list.value,
                           aggressiveness |-> form.aggressiveness]
               preset == PresetLookups(d, options.languages, "tech", 1)
           IN  IF preset.raised # "none"
               THEN {Responded(w, d, current_user.id, preset, -1, Len(Variants(options)), 0)}
               ELSE CheckLimitAndTailor(w, settings, directory, d, current_user,
                                        base_resume, jd, options)

\* lines 132-253: from the job description on, up to the await of line 142
\* or the response
ReadResume(w, settings, directory, d, current_user, jd, form) ==
  IF jd = <<>> THEN {Responded(w, d, current_user.id, HTTPException(400), -1, 0, 0)}
  ELSE IF form.resume_text = <<>> /\ ~form.resume_file
  THEN {Responded(w, d, current_user.id, HTTPException(400), -1, 0, 0)}
  ELSE IF form.resume_file /\ form.resume_text = <<>>
  THEN {[w |-> w, db |-> d,
         thread |-> [pc |-> "extract_text_from_upload", user_id |-> current_user.id,
                     job_description |-> jd, form |-> form]]}
  ELSE TailorBaseResume(w, settings, directory, d, current_user, form.resume_text, jd, form)

\* lines 97-253: from the start, up to the first await or the response
recommend(w, settings, directory, d, current_user, form) ==
  LET jd == Strip(form.job_description)
      url == Strip(form.job_url)
  IN  IF jd = <<>> /\ url = <<>>
      THEN {Responded(w, d, current_user.id, HTTPException(400), -1, 0, 0)}
      ELSE IF url # <<>> /\ jd = <<>>
      THEN {[w |-> w, db |-> d,
             thread |-> [pc |-> "fetch_job_description_from_url", user_id |-> current_user.id,
                         job_description |-> jd, form |-> form]]}
      ELSE ReadResume(w, settings, directory, d, current_user, jd, form)

--------------------------------------------------------------------------
(* Inputs: the texts made of at most n pieces of a vocabulary              *)

RECURSIVE TextsOf(_, _)
TextsOf(pieces, n) ==
  IF n = 0 THEN {<<>>}
  ELSE LET shorter == TextsOf(pieces, n - 1)
       IN  shorter \cup {t \o p : t \in shorter, p \in pieces}

NoCall == Returned(<<>>)

--------------------------------------------------------------------------
(* extract_keywords on its own                                             *)

MaxKeywordPieces == 3

KeywordPieces ==
  { <<106, 97, 118, 97>>,                        \* "java"
    <<115, 99, 114, 105, 112, 116>>,             \* "script"
    <<112, 111, 115, 116, 103, 114, 101, 115>>,  \* "postgres"
    <<113, 108>>,                                \* "ql"
    <<97, 112, 112>>,                            \* "app"
    <<77, 97, 105, 110>>,                        \* "Main"
    <<74, 65, 86, 65>>,                          \* "JAVA"
    <<106, 115>>,                                \* "js"
    <<46>>,                                      \* "."
    <<32>> }                                     \* " "

KeywordTexts == TextsOf(KeywordPieces, MaxKeywordPieces)

InitKeywords ==
  /\ text \in KeywordTexts
  /\ resume_text = <<>> /\ job_description = <<>>
  /\ language = "en" /\ apply_variations = TRUE
  /\ call = "none" /\ ret = NoCall /\ edits = <<>>
  /\ NoCallers

ExtractKeywords ==
  /\ call = "none"
  /\ call' = "extract_keywords"
  /\ ret' = Returned(extract_keywords(text))
  /\ UNCHANGED <<resume_text, job_description, text, language, apply_variations, edits, callers>>

NextKeywords == ExtractKeywords

SpecKeywords == InitKeywords /\ [][NextKeywords]_vars

--------------------------------------------------------------------------
(* compute_coverage on a resume and a job description                      *)

MaxCoveragePieces == 2

CoveragePieces ==
  { <<70, 97, 115, 116, 65, 80, 73, 32>>,             \* "FastAPI "
    <<74, 65, 86, 65, 32>>,                           \* "JAVA "
    <<77, 97, 105, 110, 32>>,                         \* "Main "
    <<77, 97, 105, 110, 46, 106, 97, 118, 97, 32>> }  \* "Main.java "

CoverageTexts == TextsOf(CoveragePieces, MaxCoveragePieces)

InitCoverage ==
  /\ resume_text \in CoverageTexts
  /\ job_description \in CoverageTexts
  /\ text = <<>> /\ language = "en" /\ apply_variations = TRUE
  /\ call = "none" /\ ret = NoCall /\ edits = <<>>
  /\ NoCallers

ComputeCoverage ==
  /\ call = "none"
  /\ call' = "compute_coverage"
  /\ ret' = compute_coverage(resume_text, job_description)
  /\ UNCHANGED <<resume_text, job_description, text, language, apply_variations, edits, callers>>

NextCoverage == ComputeCoverage

SpecCoverage == InitCoverage /\ [][NextCoverage]_vars

--------------------------------------------------------------------------
(* The stigma replacement, English and Russian                             *)

MaxStigmaPieces == 3

StigmaPieces ==
  { <<108, 101, 118, 101, 114, 97, 103, 101>>,       \* "leverage"
    <<82, 111, 98, 117, 115, 116>>,                  \* "Robust"
    <<85, 84, 73, 76, 73, 90, 69>>,                  \* "UTILIZE"
    <<116, 111, 117, 99, 104>>,                      \* "touch"
    <<98, 97, 115, 101>>,                            \* "base"
    <<68, 101, 101, 112, 32, 100, 105, 118, 101>>,   \* "Deep dive"
    <<32>> }                                         \* " "

StigmaTexts == TextsOf(StigmaPieces, MaxStigmaPieces)

MaxRussianPieces == 2

RussianPieces ==
  { <<1080, 1089, 1087, 1086, 1083, 1100, 1079, 1086, 1074, 1072, 1090, 1100>>,   \* "использовать"
    <<1048, 1089, 1087, 1086, 1083, 1100, 1079, 1086, 1074, 1072, 1090, 1100>>,   \* "Использовать"
    <<1048, 1057, 1055, 1054, 1051, 1068, 1047, 1054, 1042, 1040, 1058, 1068>>,   \* "ИСПОЛЬЗОВАТЬ"
    <<1101, 1092, 1092, 1077, 1082, 1090, 1080, 1074, 1085, 1099, 1081>>,         \* "эффективный"
    <<32>> }                                                                      \* " "

RussianTexts == TextsOf(RussianPieces, MaxRussianPieces)

InitStigma ==
  /\ \/ language = "en" /\ text \in StigmaTexts
     \/ language = "ru" /\ text \in RussianTexts
  /\ apply_variations \in BOOLEAN
  /\ resume_text = <<>> /\ job_description = <<>>
  /\ call = "none" /\ ret = NoCall /\ edits = <<>>
  /\ NoCallers

\* _replace_stigma_phrases(humanized), as humanize_text calls it (lines 69-70)
ReplaceStigmaPhrases ==
  /\ call = "none"
  /\ language = "en" /\ apply_variations
  /\ \E o \in _replace_stigma_phrases(text) :
        /\ call' = "_replace_stigma_phrases"
        /\ ret' = Returned(o.text)
        /\ edits' = o.edits
  /\ UNCHANGED <<resume_text, job_description, text, language, apply_variations, callers>>

HumanizeText ==
  /\ call = "none"
  /\ \E o \in humanize_text(text, language, apply_variations) :
        /\ call' = "humanize_text"
        /\ ret' = Returned(o.text)
        /\ edits' = o.edits
  /\ UNCHANGED <<resume_text, job_description, text, language, apply_variations, callers>>

NextStigma == ReplaceStigmaPhrases \/ HumanizeText

SpecStigma == InitStigma /\ [][NextStigma]_vars

--------------------------------------------------------------------------
(* The four core functions side by side, on small inputs                   *)

MaxCorePieces == 1

CorePieces ==
  { <<74, 97, 118, 97>>,                             \* "Java"
    <<108, 101, 118, 101, 114, 97, 103, 101, 33>> }  \* "leverage!"

CoreTexts == TextsOf(CorePieces, MaxCorePieces)

InitCore ==
  /\ resume_text \in CoreTexts
  /\ job_description \in CoreTexts
  /\ text \in CoreTexts
  /\ language \in {"en", "ru", "de"}
  /\ apply_variations \in BOOLEAN
  /\ call = "none" /\ ret = NoCall /\ edits = <<>>
  /\ NoCallers

CheckAiScore ==
  /\ call = "none"
  /\ call' = "check_ai_score"
  /\ ret' = Returned(check_ai_score(text, language))
  /\ UNCHANGED <<resume_text, job_description, text, language, apply_variations, edits, callers>>

NextCore == ExtractKeywords \/ ComputeCoverage \/ HumanizeText \/ CheckAiScore

SpecCore == InitCore /\ [][NextCore]_vars

--------------------------------------------------------------------------
(* The enthusiasm reduction, alone and within humanize_text                *)

MaxEnthusiasmPieces == 4

EnthusiasmPieces ==
  { <<72, 105>>,                      \* 'Hi'
    <<33>>,                           \* '!'
    <<10, 10>>,                       \* '\n\n'
    <<10>>,                           \* '\n'
    <<32>>,                           \* ' '
    <<85, 84, 73, 76, 73, 90, 69>> }  \* 'UTILIZE'

EnthusiasmTexts == TextsOf(EnthusiasmPieces, MaxEnthusiasmPieces)

InitEnthusiasm ==
  /\ text \in EnthusiasmTexts
  /\ language \in {"en", "ru"}
  /\ apply_variations \in BOOLEAN
  /\ resume_text = <<>> /\ job_description = <<>>
  /\ call = "none" /\ ret = NoCall /\ edits = <<>>
  /\ NoCallers

\* _reduce_enthusiasm(humanized), as humanize_text calls it (line 80)
ReduceEnthusiasm ==
  /\ call = "none"
  /\ language # "ru" /\ ~apply_variations
  /\ call' = "_reduce_enthusiasm"
  /\ ret' = Returned(_reduce_enthusiasm(text))
  /\ UNCHANGED <<resume_text, job_description, text, language, apply_variations, edits, callers>>

NextEnthusiasm == ReduceEnthusiasm \/ HumanizeText

SpecEnthusiasm == InitEnthusiasm /\ [][NextEnthusiasm]_vars

--------------------------------------------------------------------------
(* The AI score                                                            *)

MaxScorePieces == 3

ScorePieces ==
    \* 'leverage! leverage! '
  { <<108, 101, 118, 101, 114, 97, 103, 101, 33, 32, 108, 101, 118, 101, 114, 97, 103, 101, 33, 32>>,
    \* '!'
    <<33>>,
    \* 'a a a a a a a a a a a a a a a a a a a '
    <<97, 32, 97, 32, 97, 32, 97, 32, 97, 32, 97, 32, 97, 32, 97, 32, 97, 32, 97, 32, 97, 32, 97, 32, 97, 32, 97, 32, 97, 32, 97, 32, 97, 32, 97, 32, 97, 32>>,
    \* 'I am a dev. I am a developer. I am a pro. '
    <<73, 32, 97, 109, 32, 97, 32, 100, 101, 118, 46, 32, 73, 32, 97, 109, 32, 97, 32, 100, 101, 118, 101, 108, 111, 112, 101, 114, 46, 32, 73, 32, 97, 109, 32, 97, 32, 112, 114, 111, 46, 32>>,
    \* 'Dear Sir or Madam. '
    <<68, 101, 97, 114, 32, 83, 105, 114, 32, 111, 114, 32, 77, 97, 100, 97, 109, 46, 32>> }

ScoreTexts == TextsOf(ScorePieces, MaxScorePieces)

InitScore ==
  /\ text \in ScoreTexts
  /\ language \in {"en", "ru", "de"}
  /\ apply_variations = TRUE
  /\ resume_text = <<>> /\ job_description = <<>>
  /\ call = "none" /\ ret = NoCall /\ edits = <<>>
  /\ NoCallers

NextScore == CheckAiScore

SpecScore == InitScore /\ [][NextScore]_vars

--------------------------------------------------------------------------
(* humanize_text on texts that hold numbers and names                      *)

MaxContentPieces == 3

ContentPieces ==
  { <<65, 87, 83>>,                                                               \* "AWS"
    <<74, 97, 118, 97>>,                                                          \* "Java"
    <<49, 48>>,                                                                   \* "10"
    <<66, 78, 89, 32, 77, 101, 108, 108, 111, 110>>,                              \* "BNY Mellon"
    <<108, 101, 118, 101, 114, 97, 103, 101>>,                                    \* "leverage"
    <<1080, 1089, 1087, 1086, 1083, 1100, 1079, 1086, 1074, 1072, 1090, 1100>>,   \* "использовать"
    <<33>>,                                                                       \* "!"
    <<32>> }                                                                      \* " "

ContentTexts == TextsOf(ContentPieces, MaxContentPieces)

InitContent ==
  /\ text \in ContentTexts
  /\ language \in {"en", "ru"}
  /\ apply_variations \in BOOLEAN
  /\ resume_text = <<>> /\ job_description = <<>>
  /\ call = "none" /\ ret = NoCall /\ edits = <<>>
  /\ NoCallers

NextContent == HumanizeText

SpecContent == InitContent /\ [][NextContent]_vars

--------------------------------------------------------------------------
(* The humanizer endpoints, from the posted body to the response           *)

MaxEndpointPieces == 2

EndpointPieces ==
  { <<108, 101, 118, 101, 114, 97, 103, 101, 32>>,                        \* "leverage "
    <<72, 105, 33, 32, 87, 111, 119, 33, 32, 89, 101, 115, 33, 32>>,      \* "Hi! Wow! Yes! "
    <<65, 87, 83, 46, 32, 65, 119, 115, 46, 32>>,                         \* "AWS. Aws. "
    <<97, 46, 32, 97, 46, 32>>,                                           \* "a. a. "
    \* "DEAR Sir or Madam. "
    <<68, 69, 65, 82, 32, 83, 105, 114, 32, 111, 114, 32, 77, 97, 100, 97, 109, 46, 32>> }

EndpointTexts == TextsOf(EndpointPieces, MaxEndpointPieces)

EndpointBodies ==
  [text             : {Str(t) : t \in EndpointTexts} \cup {Absent},
   language         : {Str("en"), Str("ru"), Str("de"), Null, Absent},
   apply_variations : {Bool(TRUE), Bool(FALSE), Absent}]

InitEndpoint ==
  /\ request \in EndpointBodies
  /\ core_calls = <<>>
  /\ NoRag
  /\ NoOutside
  /\ text = <<>> /\ language = "en" /\ apply_variations = TRUE
  /\ resume_text = <<>> /\ job_description = <<>>
  /\ call = "none" /\ ret = NoCall /\ edits = <<>>

\* POST /humanize: FastAPI builds HumanizeRequest from the body and answers
\* 422 without calling the handler when that fails
HumanizeTextEndpoint ==
  /\ call = "none"
  /\ call' = "humanize_text_endpoint"
  /\ IF HumanizeRequest(request).ok
     THEN \E o \in humanize_text_endpoint(HumanizeRequest(request)) :
             /\ ret' = Returned(o.response)
             /\ edits' = o.edits
             /\ core_calls' = o.calls
     ELSE /\ ret' = Raised("RequestValidationError")
          /\ UNCHANGED <<edits, core_calls>>
  /\ UNCHANGED <<resume_text, job_description, text, language, apply_variations, request>>
  /\ UNCHANGED <<rag, outside>>

\* POST /ai-score
CheckAiScoreEndpoint ==
  /\ call = "none"
  /\ call' = "check_ai_score_endpoint"
  /\ IF AIScoreRequest(request).ok
     THEN /\ ret' = Returned(check_ai_score_endpoint(AIScoreRequest(request)).response)
          /\ core_calls' = check_ai_score_endpoint(AIScoreRequest(request)).calls
     ELSE /\ ret' = Raised("RequestValidationError")
          /\ UNCHANGED core_calls
  /\ UNCHANGED <<resume_text, job_description, text, language, apply_variations, edits, request>>
  /\ UNCHANGED <<rag, outside>>

NextEndpoint == HumanizeTextEndpoint \/ CheckAiScoreEndpoint

SpecEndpoint == InitEndpoint /\ [][NextEndpoint]_vars

--------------------------------------------------------------------------
(* The Russian formality substitutions                                     *)

MaxFormalityPieces == 2

FormalityPieces ==
  { formality[i][1] : i \in 1..Len(formality) } \cup
  { \* "С глубоким уважение"
    <<1057, 32, 1075, 1083, 1091, 1073, 1086, 1082, 1080, 1084, 32, 1091, 1074, 1072, 1078, 1077, 1085, 1080, 1077>>,
    \* "использовать"
    <<1080, 1089, 1087, 1086, 1083, 1100, 1079, 1086, 1074, 1072, 1090, 1100>>,
    <<32>> }                                                                      \* " "

FormalityTexts == TextsOf(FormalityPieces, MaxFormalityPieces)

InitFormality ==
  /\ text \in FormalityTexts
  /\ language = "ru"
  /\ apply_variations \in BOOLEAN
  /\ resume_text = <<>> /\ job_description = <<>>
  /\ call = "none" /\ ret = NoCall /\ edits = <<>>
  /\ NoCallers

NextFormality == HumanizeText

SpecFormality == InitFormality /\ [][NextFormality]_vars

--------------------------------------------------------------------------
(* get_rag_service called by several threads                               *)

MaxThreads == 2
MaxCallsPerThread == 2

SingletonFiles ==
  << [name     |-> <<117, 115, 95, 116, 101, 99, 104, 46, 109, 100>>,   \* "us_tech.md"
      content  |-> <<85, 115, 101, 32, 118, 101, 114, 98, 115>>,        \* "Use verbs"
      readable |-> TRUE] >>

InitSingleton ==
  /\ config \in [OPENAI_API_KEY : {"", "sk-test"}]
  /\ knowledge_base \in {[exists |-> FALSE, files |-> <<>>],
                         [exists |-> TRUE, files |-> SingletonFiles]}
  /\ _rag_service = 0
  /\ rag_services = <<>>
  /\ threads = [th \in 1..MaxThreads |-> IdleThread]
  /\ NoEndpoint
  /\ NoOutside
  /\ text = <<>> /\ language = "en" /\ apply_variations = TRUE
  /\ resume_text = <<>> /\ job_description = <<>>
  /\ call = "none" /\ ret = NoCall /\ edits = <<>>

core == <<resume_text, job_description, text, language, apply_variations,
          call, ret, edits, request, core_calls, outside>>

\* a thread enters get_rag_service()
GetRagServiceCall(th) ==
  /\ threads[th].pc = "idle"
  /\ threads[th].calls < MaxCallsPerThread
  /\ threads' = [threads EXCEPT ![th].pc = "test", ![th].calls = @ + 1]
  /\ UNCHANGED <<core, config, knowledge_base, _rag_service, rag_services>>

\* line 268: if _rag_service is None
GetRagServiceTest(th) ==
  /\ threads[th].pc = "test"
  /\ threads' = [threads EXCEPT
                   ![th].pc = IF _rag_service = 0 THEN "construct" ELSE "return"]
  /\ UNCHANGED <<core, config, knowledge_base, _rag_service, rag_services>>

\* line 269, right-hand side: RAGService().  Building the OpenAI client may
\* raise; the exception leaves get_rag_service.
GetRagServiceConstruct(th) ==
  /\ threads[th].pc = "construct"
  /\ \/ /\ rag_services' = Append(rag_services, RAGService(config, knowledge_base))
        /\ threads' = [threads EXCEPT ![th].pc = "assign",
                                      ![th].created = Len(rag_services) + 1]
     \/ /\ config.OPENAI_API_KEY # ""
        /\ threads' = [threads EXCEPT ![th].pc = "idle",
                                      ![th].returned = Raised("OpenAIError")]
        /\ UNCHANGED rag_services
  /\ UNCHANGED <<core, config, knowledge_base, _rag_service>>

\* line 269, the assignment to the global
GetRagServiceAssign(th) ==
  /\ threads[th].pc = "assign"
  /\ _rag_service' = threads[th].created
  /\ threads' = [threads EXCEPT ![th].pc = "return"]
  /\ UNCHANGED <<core, config, knowledge_base, rag_services>>

\* line 270: return _rag_service
GetRagServiceReturn(th) ==
  /\ threads[th].pc = "return"
  /\ threads' = [threads EXCEPT ![th].pc = "idle",
                                ![th].returned = Returned(_rag_service)]
  /\ UNCHANGED <<core, config, knowledge_base, _rag_service, rag_services>>

NextSingleton ==
  \E th \in 1..MaxThreads :
    \/ GetRagServiceCall(th)
    \/ GetRagServiceTest(th)
    \/ GetRagServiceConstruct(th)
    \/ GetRagServiceAssign(th)
    \/ GetRagServiceReturn(th)

SpecSingleton == InitSingleton /\ [][NextSingleton]_vars

--------------------------------------------------------------------------
(* RAGService._get_embedding called again and again on one service         *)

MaxEmbeddingCalls == 3

\* CacheKeyLength times "a"
LongPrefix == [i \in 1..CacheKeyLength |-> 97]

\* "", "job", and three texts that agree on their first 100 characters
EmbeddingTexts ==
  {<<>>, <<106, 111, 98>>, LongPrefix, LongPrefix \o <<120>>, LongPrefix \o <<121>>}

\* what client.embeddings.create may do: answer with a vector, or raise
EmbeddingAnswers ==
  {Returned(Embedding(<<1, 0>>)), Returned(Embedding(<<0, 1>>)), Raised("APIError")}

InitEmbedding ==
  /\ config \in [OPENAI_API_KEY : {"", "sk-test"}]
  /\ knowledge_base = [exists |-> FALSE, files |-> <<>>]
  /\ rag_services = <<RAGService(config, knowledge_base)>>
  /\ _rag_service = 1
  /\ threads = <<IdleThread>>
  /\ NoEndpoint
  /\ NoOutside
  /\ text = <<>> /\ language = "en" /\ apply_variations = TRUE
  /\ resume_text = <<>> /\ job_description = <<>>
  /\ call = "none" /\ ret = NoCall /\ edits = <<>>

\* self._get_embedding(text) on the global service
GetEmbedding ==
  /\ threads[1].calls < MaxEmbeddingCalls
  /\ \E t \in EmbeddingTexts, answer \in EmbeddingAnswers :
       LET got == _get_embedding(rag_services[_rag_service],
                                 Provider(<<answer>>, provider_calls), t)
       IN  /\ text' = t
           /\ call' = "_get_embedding"
           /\ ret' = Returned(got.value)
           /\ rag_services' = [rag_services EXCEPT ![_rag_service] = got.self]
           /\ provider_calls' = got.provider.calls
  /\ threads' = [threads EXCEPT ![1].calls = @ + 1]
  /\ UNCHANGED <<resume_text, job_description, language, apply_variations, edits,
                 request, core_calls, config, knowledge_base, _rag_service,
                 llm_calls, db>>

NextEmbedding == GetEmbedding

SpecEmbedding == InitEmbedding /\ [][NextEmbedding]_vars

--------------------------------------------------------------------------
(* generate_tailored_resumes, with the retrieval and the LLM behind it     *)

MaxVariants == 2

\* the knowledge base: two documents and a file that cannot be read
TailorFiles ==
  << [name |-> <<114, 117, 115, 115, 105, 97, 110, 95, 98, 97, 99, 107, 101, 110, 100, 46, 109, 100>>, content |-> <<75, 101, 101, 112, 32, 105, 116, 32, 115, 104, 111, 114, 116, 46>>, readable |-> TRUE],
     [name |-> <<117, 107, 95, 97, 116, 115, 46, 109, 100>>, content |-> <<>>, readable |-> FALSE],
     [name |-> <<117, 115, 95, 116, 101, 99, 104, 46, 109, 100>>, content |-> <<85, 115, 101, 32, 118, 101, 114, 98, 115, 46>>, readable |-> TRUE] >>

\* RecommendOptions of at most MaxVariants variants
TailorOptions ==
  {o \in [languages : {<<>>, <<"en">>, <<"ru">>, <<"en", "ru">>},
          targets : {<<"backend">>, <<"backend", "fullstack">>,
                     <<"backend", "fullstack", "gpt_engineer">>},
          aggressiveness : {2}] :
     Len(o.languages) * Len(o.targets) <= MaxVariants}

\* what the embeddings provider answers to the first, second and third call
\* for one variant (the job description, then the documents), again and
\* again: two vectors at different angles, a list numpy cannot multiply, or
\* an exception
ProviderPatterns ==
  LET near == Returned(Embedding(<<1, 0>>))
      far == Returned(Embedding(<<3, 4>>))
      odd == Returned(Malformed(<<1, 0>>))
      down == Raised("APIError")
  IN  { <<near, far, near>>, <<near, down, odd>>, <<down, near, far>>,
        <<near, down, far>>, <<near, odd, far>>, <<near, far, odd>>, <<odd, near, far>> }

ProviderScript(pattern) ==
  [i \in 1..(3 * MaxVariants) |-> pattern[((i - 1) % Len(pattern)) + 1]]

\* what the chat completions API does with a request: it raises, or answers
\* with a text too short to be a resume, or with a resume in the language
\* asked for
LlmAnswerKinds == {"raise", "short", "resume"}

LlmAnswer(kind, lang) ==
  CASE kind = "raise" -> Raised("APIConnectionError")
    [] kind = "short" -> Returned(<<32, 32>> \o [i \in 1..(MinResponseLength - 1) |-> 120] \o <<10>>)
    [] kind = "resume" /\ lang = "ru" -> Returned(<<95, 95, 95, 95, 95, 95, 95, 95, 95, 95, 10, 1043, 1083, 1091, 1073, 1086, 1082, 1086, 1091, 1074, 1072, 1078, 1072, 1077, 1084, 1099, 1081, 32, 1082, 1086, 1083, 1083, 1077, 1075, 1072, 33, 10, 68, 101, 118, 32, 45, 45, 10, 50, 48, 49, 57, 32, 8211, 32, 50, 48, 50, 51>>)
    [] OTHER -> Returned(<<32, 45, 45, 45, 45, 45, 45, 45, 45, 45, 45, 10, 45, 45, 32, 68, 101, 118, 10, 50, 48, 49, 57, 32, 45, 32, 50, 48, 50, 51, 10, 10, 10, 85, 115, 101, 32, 65, 87, 83, 46, 32, 87, 111, 119, 33, 32, 72, 105, 33, 32, 71, 111, 33, 10, 61, 61, 61, 61, 61, 61, 61, 61, 61, 61, 32>>)

InitTailor ==
  /\ config \in [OPENAI_API_KEY : {"", "sk-test"},
                 RESUMEKIT_USE_OPENAI : {<<>>, <<49>>, <<78, 79>>},
                 RAG_ENABLED : BOOLEAN,
                 RAG_TOP_K : {1}]
  /\ knowledge_base \in {[exists |-> FALSE, files |-> <<>>],
                         [exists |-> TRUE, files |-> TailorFiles]}
  /\ resume_text = <<32, 32, 80, 121, 116, 104, 111, 110, 32, 100, 101, 118, 101, 108, 111, 112, 101, 114, 44, 32, 50, 48, 49, 57, 32, 45, 32, 50, 48, 50, 51, 10>>
  /\ job_description \in {<<>>, <<32, 32, 80, 121, 116, 104, 111, 110, 32, 106, 111, 98, 10, 10, 82, 101, 109, 111, 116, 101, 10, 66, 101, 114, 108, 105, 110, 10, 78, 111, 119>>}
  /\ request \in TailorOptions
  /\ core_calls = <<>>
  /\ _rag_service = 0
  /\ rag_services = <<>>
  /\ threads = <<>>
  /\ NoOutside
  /\ text = <<>> /\ language = "en" /\ apply_variations = TRUE
  /\ call = "none" /\ ret = NoCall /\ edits = <<>>

\* the world a call starts in
World(script, creation, llm_script) ==
  [_rag_service |-> _rag_service, rag_services |-> rag_services,
   provider |-> Provider(script, provider_calls), creation |-> creation,
   llm_script |-> llm_script, llm_calls |-> llm_calls, core_calls |-> core_calls]

\* The surroundings of one call: what the provider answers, whether
\* RAGService() succeeds, what the LLM does for each variant.  A choice is
\* drawn only where the call can come to depend on it: the LLM is reached
\* with OpenAI in use and an API key, the RAG service with RAG enabled, the
\* provider with a knowledge base and a job description to search with.
Surroundings ==
  LET llm == use_llm(config) /\ config.OPENAI_API_KEY # ""
      retrieval == llm /\ config.RAG_ENABLED
      search == retrieval /\ knowledge_base.exists /\ job_description # <<>>
  IN  [pattern  : IF search THEN ProviderPatterns ELSE {<<Raised("APIError")>>},
       creation : IF retrieval THEN {"ok", "raise"} ELSE {"ok"},
       kinds    : [1..Len(Variants(request)) -> IF llm THEN LlmAnswerKinds ELSE {"raise"}]]

GenerateTailoredResumes ==
  /\ call = "none"
  /\ \E around \in Surroundings :
       \E o \in generate_tailored_resumes(
                  World(ProviderScript(around.pattern), around.creation,
                        [i \in 1..Len(Variants(request)) |->
                           LlmAnswer(around.kinds[i], Variants(request)[i].language)]),
                  config, knowledge_base, resume_text, job_description, request) :
         /\ call' = "generate_tailored_resumes"
         /\ ret' = o.ret
         /\ _rag_service' = o.w._rag_service
         /\ rag_services' = o.w.rag_services
         /\ provider_calls' = o.w.provider.calls
         /\ llm_calls' = o.w.llm_calls
         /\ core_calls' = o.w.core_calls
  /\ UNCHANGED <<resume_text, job_description, text, language, apply_variations, edits,
                 request, config, knowledge_base, threads, db>>

NextTailor == GenerateTailoredResumes

SpecTailor == InitTailor /\ [][NextTailor]_vars

--------------------------------------------------------------------------
(* POST /recommend: requests of several users, one event loop              *)

MaxRequests == 2
MaxUsers == 2

\* the table users after the migration 68dd522e38b3: user u may own u resumes
RecommendUsers ==
  [u \in 1..MaxUsers |-> [id |-> u, email |-> <<117, 48 + u>>, user_level |-> u]]

\* the table style_presets: empty, one preset for Russian, or two active
\* presets for English
RecommendPresets ==
  { <<>>,
    << [language |-> "ru", industry |-> "tech", is_active |-> TRUE] >>,
    << [language |-> "en", industry |-> "tech", is_active |-> TRUE],
       [language |-> "en", industry |-> "tech", is_active |-> TRUE] >> }

\* the form fields of a request
Form(job_description_field, job_url, resume_text_field, resume_file, languages, targets) ==
  [job_description |-> job_description_field, job_url |-> job_url,
   resume_text |-> resume_text_field, resume_file |-> resume_file,
   languages |-> languages, targets |-> targets, aggressiveness |-> 2]

\* the requests posted: with and without a job description ("Python job",
\* blanks, or the URL "http://x" to fetch it from), with the resume as text
\* ("Python dev"), as a file or missing, with the default languages and
\* targets or with "en", "en, RU", "de" and "backend,fullstack"
RecommendForms ==
  LET job == <<80, 121, 116, 104, 111, 110, 32, 106, 111, 98>>
      url == <<104, 116, 116, 112, 58, 47, 47, 120>>
      dev == <<80, 121, 116, 104, 111, 110, 32, 100, 101, 118>>
      en == <<101, 110>>
      en_ru == <<101, 110, 44, 32, 82, 85>>
      de == <<100, 101>>
      roles == <<98, 97, 99, 107, 101, 110, 100, 44, 102, 117, 108, 108, 115, 116, 97, 99, 107>>
  IN  { Form(<<>>, <<>>, dev, FALSE, <<>>, <<>>),
        Form(<<32, 32>>, <<32>>, dev, FALSE, <<>>, <<>>),
        Form(job, <<>>, <<>>, FALSE, <<>>, <<>>),
        Form(job, <<>>, dev, FALSE, <<>>, <<>>),
        Form(job, url, dev, TRUE, en, <<>>),
        Form(job, <<>>, dev, FALSE, en_ru, roles),
        Form(job, <<>>, dev, FALSE, de, <<>>),
        Form(job, <<>>, dev, FALSE, <<>>, de),
        Form(<<>>, url, dev, FALSE, <<>>, <<>>),
        Form(job, <<>>, <<>>, TRUE, en, <<>>),
        Form(<<32, 32>>, url, <<>>, TRUE, <<>>, <<>>) }

\* what fetch_job_description_from_url hands back: the text of the page, or
\* the ValueError of a page that cannot be fetched or holds no text
FetchAnswers == {Raised("ValueError"), Returned(<<80, 121, 116, 104, 111, 110, 32, 106, 111, 98>>)}

\* what extract_text_from_upload hands back: the text of the file, empty
\* for an empty file, or the exception of a file that cannot be opened
ExtractAnswers ==
  {Raised("BadZipFile"), Returned(<<>>), Returned(<<80, 121, 116, 104, 111, 110, 32, 100, 101, 118>>)}

InitRecommend ==
  /\ db \in [users : {RecommendUsers}, style_presets : RecommendPresets,
             base_resumes : {<<>>}, job_postings : {<<>>}, tailored_resumes : {<<>>}]
  /\ threads = [r \in 1..MaxRequests |-> [pc |-> "idle"]]
  /\ config = [OPENAI_API_KEY |-> "", RESUMEKIT_USE_OPENAI |-> <<>>,
               RAG_ENABLED |-> FALSE, RAG_TOP_K |-> 1]
  /\ knowledge_base = [exists |-> FALSE, files |-> <<>>]
  /\ _rag_service = 0
  /\ rag_services = <<>>
  /\ provider_calls = <<>>
  /\ llm_calls = <<>>
  /\ NoEndpoint
  /\ resume_text = <<>> /\ job_description = <<>>
  /\ text = <<>> /\ language = "en" /\ apply_variations = TRUE
  /\ call = "none" /\ ret = NoCall /\ edits = <<>>

\* the world the tailoring of a request runs in
RecommendWorld == World(ProviderScript(<<Raised("APIError")>>), "ok", <<>>)

\* request r has run up to its next await or its response
Ran(r, o) ==
  /\ threads' = [threads EXCEPT ![r] = o.thread]
  /\ db' = o.db
  /\ _rag_service' = o.w._rag_service
  /\ rag_services' = o.w.rag_services
  /\ provider_calls' = o.w.provider.calls
  /\ llm_calls' = o.w.llm_calls
  /\ core_calls' = o.w.core_calls
  /\ UNCHANGED <<resume_text, job_description, text, language, apply_variations,
                 call, ret, edits, request, config, knowledge_base>>

\* lines 97-125
RecommendCall(r) ==
  /\ threads[r].pc = "idle"
  /\ \E u \in DOMAIN db.users, form \in RecommendForms :
       \E o \in recommend(RecommendWorld, config, knowledge_base, db, User(db.users[u]), form) :
         Ran(r, o)

\* lines 125-130: fetch_job_description_from_url is over
RecommendFetched(r) ==
  /\ threads[r].pc = "fetch_job_description_from_url"
  /\ \E fetched \in FetchAnswers :
       LET current_user == User(db.users[threads[r].user_id])
       IN  \E o \in IF fetched.raised # "none"
                    THEN {Responded(RecommendWorld, db, current_user.id, HTTPException(400), -1, 0, 0)}
                    ELSE ReadResume(RecommendWorld, config, knowledge_base, db, current_user,
                                    fetched.value, threads[r].form) :
             Ran(r, o)

\* lines 142-146: extract_text_from_upload is over
RecommendExtracted(r) ==
  /\ threads[r].pc = "extract_text_from_upload"
  /\ \E extracted \in ExtractAnswers :
       LET current_user == User(db.users[threads[r].user_id])
       IN  \E o \in IF extracted.raised # "none"
                    THEN {Responded(RecommendWorld, db, current_user.id, extracted, -1, 0, 0)}
                    ELSE TailorBaseResume(RecommendWorld, config, knowledge_base, db, current_user,
                                          extracted.value, threads[r].job_description,
                                          threads[r].form) :
             Ran(r, o)

NextRecommend ==
  \E r \in 1..MaxRequests :
    \/ RecommendCall(r)
    \/ RecommendFetched(r)
    \/ RecommendExtracted(r)

SpecRecommend == InitRecommend /\ [][NextRecommend]_vars

--------------------------------------------------------------------------
(* Properties                                                              *)

\* a comes strictly before b in lexicographic (code point) order
LexBefore(a, b) ==
  \E k \in 0..Len(b) - 1 :
     /\ k <= Len(a)
     /\ \A i \in 1..k : a[i] = b[i]
     /\ (k = Len(a) \/ a[k + 1] < b[k + 1])

Ascending(seq) == \A i \in 1..Len(seq) - 1 : LexBefore(seq[i], seq[i + 1])

CoverageDone == call = "compute_coverage" /\ ret.raised = "none"

\* C1: matched is the sorted list of extract_keywords(resume) \cap
\* extract_keywords(jd), missing the sorted list of extract_keywords(jd) \
\* extract_keywords(resume); so they are disjoint, cover the JD keywords,
\* total_jd_keywords = len(matched) + len(missing) and total_resume_keywords
\* is the number of resume keywords.
C1_CoverageSets ==
  call = "compute_coverage" =>
    /\ ret.raised = "none"
    /\ LET R == extract_keywords(resume_text)
           J == extract_keywords(job_description)
           v == ret.value
       IN  /\ Ascending(v.matched) /\ Elements(v.matched) = R \cap J
           /\ Ascending(v.missing) /\ Elements(v.missing) = J \ R
           /\ Elements(v.matched) \cap Elements(v.missing) = {}
           /\ Elements(v.matched) \cup Elements(v.missing) = J
           /\ v.total_jd_keywords = Len(v.matched) + Len(v.missing)
           /\ v.total_resume_keywords = Cardinality(R)

C1_Witness ==
  /\ CoverageDone
  /\ Len(ret.value.matched) >= 2
  /\ Len(ret.value.missing) >= 2
  /\ ret.value.total_resume_keywords > Len(ret.value.matched)

\* C2: the score is len(matched)/len(jd_keywords) to the nearest hundredth
\* when the JD has keywords and exactly 0 when it has none; it is 1.0 when
\* the JD has keywords and none is missing.
C2_CoverageScore ==
  CoverageDone =>
    LET J == extract_keywords(job_description)
        n == Cardinality(J)
        m == Len(ret.value.matched)
        d == 100 * m - n * ret.value.score
    IN  /\ n = 0 => ret.value.score = 0
        /\ n > 0 => 2 * d <= n /\ -2 * d <= n
        /\ (n > 0 /\ ret.value.missing = <<>>) => ret.value.score = 100

C2_Witness ==
  /\ CoverageDone
  /\ Len(ret.value.matched) = 2
  /\ ret.value.total_jd_keywords = 3
  /\ ret.value.score = 67

\* C3: 0.0 <= score <= 1.0 for all inputs
C3_ScoreBounds ==
  call = "compute_coverage" =>
    ret.raised = "none" /\ ret.value.score >= 0 /\ ret.value.score <= 100

C3_Witness ==
  /\ CoverageDone
  /\ ret.value.total_resume_keywords > ret.value.total_jd_keywords
  /\ ret.value.score > 0 /\ ret.value.score < 100

KeywordsDone == call = "extract_keywords" /\ ret.raised = "none"

KwJava == <<74, 97, 118, 97>>                                         \* "Java"
KwJavaScript == <<74, 97, 118, 97, 83, 99, 114, 105, 112, 116>>       \* "JavaScript"
KwPostgreSQL == <<80, 111, 115, 116, 103, 114, 101, 83, 81, 76>>      \* "PostgreSQL"

\* C5: if a lexicon variant, or the lowercased canonical form, is a substring
\* of the lowercased text, the canonical form is in extract_keywords(text);
\* a text with "javascript" yields "Java" and "JavaScript", and "postgres" and
\* "postgresql" both yield the one entry "PostgreSQL".
C5_LexiconSubstring ==
  KeywordsDone =>
    LET low == Lower(text)
    IN  /\ \A i \in 1..Len(TECH_NORMALIZATIONS) :
             ( \/ IsSubstr(TECH_NORMALIZATIONS[i][1], low)
               \/ IsSubstr(Lower(TECH_NORMALIZATIONS[i][2]), low) )
             => TECH_NORMALIZATIONS[i][2] \in ret.value
        /\ IsSubstr(Lower(KwJavaScript), low) => {KwJava, KwJavaScript} \subseteq ret.value
        /\ IsSubstr(Lower(SubSeq(KwPostgreSQL, 1, 8)), low) =>
             {k \in ret.value : Lower(k) = Lower(KwPostgreSQL)} = {KwPostgreSQL}

C5_Witness ==
  /\ KeywordsDone
  /\ text = Lower(KwJavaScript)
  /\ ret.value = {KwJava, KwJavaScript}

\* the tokens word.ext of a text: the matches of \b\w+\.(js|ts|py|java|go|rs|rb)\b
FileTokens(t) ==
  LET ms == finditer(tech_patterns[3], t, 0)
  IN  {Slice(t, ms[i].start, ms[i].end) : i \in 1..Len(ms)}

\* C6: every token word.ext of the text that is longer than 2 characters is
\* in extract_keywords(text), verbatim ("app.js", "Main.java").
C6_FileTokenVerbatim ==
  KeywordsDone =>
    \A token \in FileTokens(text) : Len(token) > 2 => token \in ret.value

\* C7: no two members of extract_keywords(text) are equal up to letter case
C7_CanonicalCasing ==
  KeywordsDone =>
    \A a \in ret.value : \A b \in ret.value : Lower(a) = Lower(b) => a = b

\* C4: on the empty string extract_keywords returns the empty set,
\* compute_coverage("", "") returns matched = [], missing = [], score = 0.0
\* and both totals 0, humanize_text("", language, flag) returns "" for every
\* language and flag, and check_ai_score("", "en") returns score 0 and
\* flags = []; none of the calls raises.
C4_DegenerateInput ==
  /\ call # "none" => ret.raised = "none"
  /\ (call = "extract_keywords" /\ text = <<>>) => ret.value = {}
  /\ (call = "compute_coverage" /\ resume_text = <<>> /\ job_description = <<>>) =>
       /\ ret.raised = "none"
       /\ ret.value = [matched |-> <<>>, missing |-> <<>>, score |-> 0,
                       total_jd_keywords |-> 0, total_resume_keywords |-> 0]
  /\ (call = "humanize_text" /\ text = <<>>) => ret.value = <<>>
  /\ (call = "check_ai_score" /\ text = <<>> /\ language = "en") =>
       ret.value.score = 0 /\ ret.value.flags = <<>>

C4_Witness ==
  /\ call = "compute_coverage"
  /\ resume_text = <<>> /\ job_description = <<>>
  /\ ret = Returned([matched |-> <<>>, missing |-> <<>>, score |-> 0,
                     total_jd_keywords |-> 0, total_resume_keywords |-> 0])

\* a whole-word, case-insensitive occurrence of a phrase in a text
HasWholeWord(phrase, t) ==
  \E at \in 0..(Len(t) - Len(phrase)) :
     /\ \A j \in 1..Len(phrase) : LowerChar(t[at + j]) = LowerChar(phrase[j])
     /\ (at = 0 \/ ~IsWordChar(t[at]))
     /\ (at + Len(phrase) = Len(t) \/ ~IsWordChar(t[at + Len(phrase) + 1]))

\* C8: whatever alternatives are drawn, the result of _replace_stigma_phrases
\* holds no whole-word, case-insensitive occurrence of any English stigma
\* phrase: every occurrence is replaced and no replacement brings one back.
C8_NoStigmaLeft ==
  call = "_replace_stigma_phrases" =>
    \A i \in 1..Len(AI_STIGMA_PHRASES) :
       ~HasWholeWord(AI_STIGMA_PHRASES[i][1], ret.value)

C8_Witness ==
  /\ call = "_replace_stigma_phrases"
  /\ Len(edits) >= 2
  /\ Lower(edits[1].matched) # Lower(edits[2].matched)
  /\ \E i \in 1..Len(AI_STIGMA_PHRASES) : HasWholeWord(AI_STIGMA_PHRASES[i][1], text)

\* C9: in the English and in the Russian replacement the inserted alternative
\* is uppercased when the whole match is uppercase, else capitalized when the
\* match begins with a capital, else inserted as it is.
C9_CaseAdapted ==
  \A k \in 1..Len(edits) :
     edits[k].replacement =
       IF IsUpperStr(edits[k].matched) THEN Upper(edits[k].alternative)
       ELSE IF IsUpperChar(edits[k].matched[1]) THEN Capitalize(edits[k].alternative)
       ELSE edits[k].alternative

\* the whole-word occurrences of Russian stigma words in a text
RussianStigmaCount(t) ==
  LET n[i \in 0..Len(russian_stigmas)] ==
        IF i = 0 THEN 0
        ELSE n[i - 1] + Len(finditer(PhrasePattern(russian_stigmas[i][1]), t, 0))
  IN  n[Len(russian_stigmas)]

\* C10: humanize_text(text, "ru") with variations on a text that holds Russian
\* stigma words removes at least one of their occurrences, in every run.
C10_RussianReplacesSome ==
  ( /\ call = "humanize_text" /\ language = "ru" /\ apply_variations
    /\ RussianStigmaCount(text) > 0 )
  => RussianStigmaCount(ret.value) < RussianStigmaCount(text)

\* the paragraphs of a text: what lies between blank lines
Paragraphs(t) == Elements(Split(t, <<10, 10>>))

\* every paragraph of the text holds at most one '!'
EnthusiasmCapped(t) == \A para \in Paragraphs(t) : Count(para, 33) <= 1

\* C11: every blank-line-delimited paragraph of the output of
\* _reduce_enthusiasm holds at most one '!'.
C11_EnthusiasmCap ==
  call = "_reduce_enthusiasm" => EnthusiasmCapped(ret.value)

C11_Witness ==
  /\ call = "_reduce_enthusiasm"
  /\ Cardinality(Paragraphs(text)) >= 2
  /\ \E para \in Paragraphs(text) : Count(para, 33) >= 3
  /\ Count(ret.value, 33) >= 1

\* a paragraph with every '!' after its first turned into '.', in place
LaterMarksToStops(para) ==
  [i \in 1..Len(para) |->
     IF para[i] = 33 /\ \E j \in 1..(i - 1) : para[j] = 33 THEN 46 ELSE para[i]]

\* C12: _reduce_enthusiasm keeps the first '!' of a paragraph where it is and
\* turns every later '!' of the paragraph into '.', at the same position;
\* nothing else of the paragraph changes before the all-caps rewrite.
C12_LaterMarksInPlace ==
  call = "_reduce_enthusiasm" =>
    LET paragraphs == Split(text, <<10, 10>>)
    IN  ret.value =
          ReduceCapitals(
            Join([i \in 1..Len(paragraphs) |-> LaterMarksToStops(paragraphs[i])],
                 <<10, 10>>))

C14_EnthusiasmCapAllLanguages ==
  call = "humanize_text" => EnthusiasmCapped(ret.value)

ScoreDone == call = "check_ai_score" /\ ret.raised = "none"

\* C15: check_ai_score returns an integer score within 0..100, and
\* is_likely_ai is (returned score > 50).
C15_ScoreBounds ==
  ScoreDone =>
    /\ ret.value.score \in 0..100
    /\ ret.value.is_likely_ai = (ret.value.score > 50)

C15_Witness ==
  /\ ScoreDone
  /\ ret.value.is_likely_ai
  /\ ret.value.score = 65

\* C16: for every language other than "en", check_ai_score returns score 0,
\* no flags, no suggestions and is_likely_ai false, whatever the text holds.
C16_OnlyEnglishScored ==
  (ScoreDone /\ language # "en") =>
    ret.value = [score |-> 0, flags |-> <<>>, suggestions |-> <<>>,
                 is_likely_ai |-> FALSE]

C16_Witness ==
  /\ ScoreDone /\ language = "ru"
  /\ Count(text, 33) > 2
  /\ IsSubstr(DEAR_SIR_OR_MADAM, text)
  /\ ret.value.score = 0 /\ ret.value.flags = <<>>

\* the phrase stands at offset at of the text as a whole word, whatever the case
WholeWordAt(phrase, t, at) ==
  /\ at + Len(phrase) <= Len(t)
  /\ \A j \in 1..Len(phrase) : LowerChar(t[at + j]) = LowerChar(phrase[j])
  /\ (at = 0 \/ ~IsWordChar(t[at]))
  /\ (at + Len(phrase) = Len(t) \/ ~IsWordChar(t[at + Len(phrase) + 1]))

\* the whole-word, case-insensitive occurrences of the ten buzzwords
BuzzwordOccurrences(t) ==
  LET n[i \in 0..Len(buzzwords)] ==
        IF i = 0 THEN 0
        ELSE n[i - 1] + Cardinality({at \in 0..Len(t) : WholeWordAt(buzzwords[i], t, at)})
  IN  n[Len(buzzwords)]

\* the whitespace-delimited words, counted by their last characters
WordTotal(t) ==
  Cardinality({i \in 1..Len(t) :
                 ~IsSpaceChar(t[i]) /\ (i = Len(t) \/ IsSpaceChar(t[i + 1]))})

\* the buzzword density is strictly above 0.05
DensityOverFivePercent(t) ==
  WordTotal(t) > 0 /\ 20 * BuzzwordOccurrences(t) > WordTotal(t)

\* the sentences: the maximal stretches free of '.', '!' and '?', trimmed,
\* the empty ones left out; one entry per stretch, keyed by where it starts
SentenceStarts(t) ==
  {a \in 0..(Len(t) - 1) : ~IsStop(t[a + 1]) /\ (a = 0 \/ IsStop(t[a]))}

SentenceFrom(t, a) ==
  LET b == CHOOSE b \in (a + 1)..Len(t) :
             /\ b = Len(t) \/ IsStop(t[b + 1])
             /\ \A c \in (a + 1)..b : ~IsStop(t[c])
  IN  Strip(Slice(t, a, b))

NonEmptySentenceStarts(t) == {a \in SentenceStarts(t) : SentenceFrom(t, a) # <<>>}

TenCharPrefix(sentence) ==
  SubSeq(sentence, 1, IF Len(sentence) < 10 THEN Len(sentence) ELSE 10)

DistinctPrefixes(t) ==
  {TenCharPrefix(SentenceFrom(t, a)) : a \in NonEmptySentenceStarts(t)}

\* more than 3 sentences, fewer than 0.6 distinct prefixes per sentence
StartersRepeat(t) ==
  /\ Cardinality(NonEmptySentenceStarts(t)) > 3
  /\ 5 * Cardinality(DistinctPrefixes(t)) < 3 * Cardinality(NonEmptySentenceStarts(t))

\* the four English rules: << fired, points, flag, suggestion >>
RulesFired(t) ==
  << <<DensityOverFivePercent(t), 30,
       "High buzzword density", "Replace buzzwords with natural language">>,
     <<StartersRepeat(t), 20,
       "Repetitive sentence structure", "Vary sentence beginnings">>,
     <<Cardinality({i \in 1..Len(t) : t[i] = 33}) > 2, 15,
       "Excessive enthusiasm markers", "Reduce exclamation marks">>,
     <<IsSubstr(DEAR_SIR_OR_MADAM, t), 10,
       "Overly formal opening", "Use more natural greeting">> >>

RECURSIVE PointsOf(_)
PointsOf(rules) ==
  IF rules = <<>> THEN 0
  ELSE (IF rules[1][1] THEN rules[1][2] ELSE 0) + PointsOf(Tail(rules))

RECURSIVE FiredColumn(_, _)
FiredColumn(rules, column) ==
  IF rules = <<>> THEN <<>>
  ELSE (IF rules[1][1] THEN <<rules[1][column]>> ELSE <<>>)
         \o FiredColumn(Tail(rules), column)

\* C17: for English the score is 30, 20, 15 and 10 added up over the rules
\* that fire, flags lists the fired rules in the fixed order, suggestions runs
\* parallel to flags; so the score is at most 75 and is_likely_ai implies
\* the flag "High buzzword density".
C17_CumulativeRules ==
  (ScoreDone /\ language = "en") =>
    /\ ret.value.score = PointsOf(RulesFired(text))
    /\ ret.value.flags = FiredColumn(RulesFired(text), 3)
    /\ ret.value.suggestions = FiredColumn(RulesFired(text), 4)
    /\ Len(ret.value.suggestions) = Len(ret.value.flags)
    /\ ret.value.score <= 75
    /\ ret.value.is_likely_ai
         => "High buzzword density" \in Elements(ret.value.flags)

C17_Witness ==
  /\ ScoreDone /\ language = "en"
  /\ ret.value.score = 75
  /\ Len(ret.value.flags) = 4

\* C18: for English "High buzzword density" is raised exactly when there is
\* a word and buzzword occurrences / words > 0.05; at 0.05 it is not raised.
C18_BuzzwordDensity ==
  (ScoreDone /\ language = "en") =>
    ( "High buzzword density" \in Elements(ret.value.flags)
        <=> DensityOverFivePercent(text) )

C18_Witness ==
  /\ ScoreDone /\ language = "en"
  /\ BuzzwordOccurrences(text) = 2 /\ WordTotal(text) = 40
  /\ "High buzzword density" \notin Elements(ret.value.flags)

\* C19: for English "Repetitive sentence structure" is raised exactly when
\* there are more than 3 non-empty trimmed sentences and distinct 10-character
\* prefixes / sentences < 0.6; sentences that differ within their first 10
\* characters count as distinct.
C19_RepetitiveStarters ==
  (ScoreDone /\ language = "en") =>
    ( "Repetitive sentence structure" \in Elements(ret.value.flags)
        <=> StartersRepeat(text) )

C19_Witness ==
  /\ ScoreDone /\ language = "en"
  /\ Cardinality(NonEmptySentenceStarts(text)) = 5
  /\ Cardinality(DistinctPrefixes(text)) = 3
  /\ "Repetitive sentence structure" \notin Elements(ret.value.flags)

\* the words of a text: its maximal runs of word characters, as spans
WordSpans(t) ==
  { [start |-> a,
     end   |-> CHOOSE b \in (a + 1)..Len(t) :
                 /\ b = Len(t) \/ ~IsWordChar(t[b + 1])
                 /\ \A c \in (a + 1)..b : IsWordChar(t[c])]
    : a \in {a \in 0..(Len(t) - 1) :
               IsWordChar(t[a + 1]) /\ (a = 0 \/ ~IsWordChar(t[a]))} }

\* a numeric fact or a proper noun: a digit run, a capitalized word or a word
\* in capitals throughout
IsFactOrName(w) ==
  \/ \A i \in 1..Len(w) : IsDigit(w[i])
  \/ Len(w) >= 2 /\ IsUpperChar(w[1]) /\ \A i \in 2..Len(w) : IsLowerChar(w[i])
  \/ Len(w) >= 2 /\ \A i \in 1..Len(w) : IsUpperChar(w[i])

\* the phrases the passes look for: stigmas, contractions, formal phrases
LexiconPhrases ==
  {AI_STIGMA_PHRASES[i][1] : i \in 1..Len(AI_STIGMA_PHRASES)}
    \cup {contractions[i][1] : i \in 1..Len(contractions)}
    \cup {russian_stigmas[i][1] : i \in 1..Len(russian_stigmas)}
    \cup {formality[i][1] : i \in 1..Len(formality)}

\* the span lies within an occurrence of one of those phrases
InLexiconMatch(t, span) ==
  \E phrase \in LexiconPhrases :
     \E at \in 0..Len(t) :
        /\ at <= span.start /\ span.end <= at + Len(phrase)
        /\ at + Len(phrase) <= Len(t)
        /\ \A j \in 1..Len(phrase) : LowerChar(t[at + j]) = LowerChar(phrase[j])

\* the numbers and names of the text that no pass looks for
ProtectedWords(t) ==
  { w \in { Slice(t, span.start, span.end)
            : span \in {span \in WordSpans(t) : ~InLexiconMatch(t, span)} }
    : IsFactOrName(w) }

\* a run of three or more ASCII capitals, which line 196 capitalizes
IsShouted(w) == Len(w) >= 3 /\ \A i \in 1..Len(w) : IsAsciiUpper(w[i])

\* C20 as stated: every digit run and every capitalized or all-uppercase name
\* of the input that is no stigma, contraction or formal-phrase match occurs
\* unchanged in the output of humanize_text, for "en" and "ru".
C20_ContentPreserved ==
  call = "humanize_text" =>
    \A w \in ProtectedWords(text) : IsSubstr(w, ret.value)

\* C20 amended: every such number or name occurs in the output, unchanged,
\* except that outside the Russian path a word of three or more capitals
\* occurs in capitalized form ("AWS" as "Aws", "BNY Mellon" as "Bny Mellon").
C20_ContentPreservedButCapitals ==
  call = "humanize_text" =>
    \A w \in ProtectedWords(text) :
       IF language # "ru" /\ IsShouted(w)
       THEN IsSubstr(Capitalize(w), ret.value)
       ELSE IsSubstr(w, ret.value)

C20_Witness ==
  /\ call = "humanize_text" /\ language = "en" /\ apply_variations
  /\ edits # <<>>
  /\ \E w \in ProtectedWords(text) : IsShouted(w) /\ ~IsSubstr(w, ret.value)
  /\ \E w \in ProtectedWords(text) : ~IsShouted(w) /\ IsSubstr(w, ret.value)

\* POST /humanize has answered 200
HumanizeAnswered == call = "humanize_text_endpoint" /\ ret.raised = "none"

\* the language the request asks for: the posted one, "en" when none is posted
RequestLanguage ==
  IF request.language.type = "string" THEN request.language.value ELSE "en"

HasFlag(result, flag) == \E i \in 1..Len(result.flags) : result.flags[i] = flag

\* C21 as stated: for every request to the humanize endpoint,
\* ai_score_after.score <= ai_score_before.score.
C21_ScoreNeverRises ==
  HumanizeAnswered => ret.value.ai_score_after.score <= ret.value.ai_score_before.score

\* C21 as amended: for a language other than "en" both scores are 0; for "en"
\* the score may rise, but the humanized text never holds more '!' than the
\* original, so "Excessive enthusiasm markers" is never flagged after without
\* being flagged before.
C21_ScoreNeverRisesOffEnglish ==
  HumanizeAnswered =>
    /\ RequestLanguage # "en" =>
         /\ ret.value.ai_score_before.score = 0
         /\ ret.value.ai_score_after.score = 0
    /\ Count(ret.value.humanized, 33) <= Count(ret.value.original, 33)
    /\ HasFlag(ret.value.ai_score_after, "Excessive enthusiasm markers")
         => HasFlag(ret.value.ai_score_before, "Excessive enthusiasm markers")

C21_Witness ==
  /\ HumanizeAnswered
  /\ RequestLanguage = "en"
  /\ HasFlag(ret.value.ai_score_before, "Excessive enthusiasm markers")
  /\ ~HasFlag(ret.value.ai_score_after, "Excessive enthusiasm markers")
  /\ ret.value.ai_score_after.score < ret.value.ai_score_before.score

\* C22: for a language code other than "en" and "ru", humanize_text does not
\* raise and returns what the English pipeline returns for the text, and
\* check_ai_score does not raise and returns the zero result.
C22_UnsupportedLanguageFallsBack ==
  language \notin {"en", "ru"} =>
    /\ call = "humanize_text" =>
         /\ ret.raised = "none"
         /\ \E o \in humanize_text(text, "en", apply_variations) : ret.value = o.text
    /\ call = "check_ai_score" =>
         ret = Returned([score |-> 0, flags |-> <<>>, suggestions |-> <<>>,
                         is_likely_ai |-> FALSE])

C22_Witness ==
  /\ call = "humanize_text" /\ language = "de" /\ apply_variations
  /\ ret.raised = "none"
  /\ IsSubstr(<<108, 101, 118, 101, 114, 97, 103, 101>>, text)         \* "leverage"
  /\ ~IsSubstr(<<108, 101, 118, 101, 114, 97, 103, 101>>, ret.value)
  /\ Len(edits) = 1

\* C23: only "en" and "ru" reach the core through the two endpoints: a request
\* whose language is any other string is rejected by the request validation,
\* and no call of humanize_text or check_ai_score is made for it.
C23_OnlyKnownLanguagesReachCore ==
  call \in {"humanize_text_endpoint", "check_ai_score_endpoint"} =>
    /\ \A i \in 1..Len(core_calls) : core_calls[i].language \in {"en", "ru"}
    /\ RequestLanguage \notin {"en", "ru"} =>
         ret = Raised("RequestValidationError") /\ core_calls = <<>>

\* humanize_text has returned for a non-empty Russian text
RussianHumanized == call = "humanize_text" /\ language = "ru" /\ text # <<>>

\* the i-th formal phrase: "Глубокоуважаемый", "С глубоким уважением",
\* "выражаю заинтересованность", "хотел бы выразить", "имею глубокие знания"
FormalPhrase(i) == formality[i][1]

\* "С глубоким уважение" directly followed by "выражаю заинтересованность":
\* the third substitution puts "меня ..." there, whose "м" completes
\* "С глубоким уважением"
RecreatesDeepRespect ==
  <<1057, 32, 1075, 1083, 1091, 1073, 1086, 1082, 1080, 1084, 32, 1091, 1074, 1072, 1078, 1077, 1085, 1080, 1077>> \o FormalPhrase(3)

\* C24 as stated: whatever apply_variations is, the output of
\* humanize_text(text, "ru", .) for a non-empty text holds none of the five
\* formal phrases as a case-sensitive substring.
C24_FormalPhrasesGone ==
  RussianHumanized => \A i \in 1..5 : ~IsSubstr(FormalPhrase(i), ret.value)

\* C24 as amended: the output holds none of the first, third, fourth and fifth
\* formal phrase, and holds the second, "С глубоким уважением", only when the
\* text has "С глубоким уважение" directly followed by
\* "выражаю заинтересованность".
C24_FormalPhrasesGoneUnlessRecreated ==
  RussianHumanized =>
    \A i \in 1..5 :
      IsSubstr(FormalPhrase(i), ret.value) =>
        i = 2 /\ IsSubstr(RecreatesDeepRespect, text)

C24_Witness ==
  /\ RussianHumanized /\ ~apply_variations
  /\ IsSubstr(FormalPhrase(1), text)
  /\ IsSubstr(FormalPhrase(2), text)
  /\ \A i \in 1..5 : ~IsSubstr(FormalPhrase(i), ret.value)
  /\ IsSubstr(formality[1][2], ret.value) /\ IsSubstr(formality[2][2], ret.value)

\* C29: _reduce_enthusiasm is idempotent: applied to its own result it
\* returns that result unchanged.
C29_ReduceEnthusiasmIdempotent ==
  call = "_reduce_enthusiasm" => _reduce_enthusiasm(ret.value) = ret.value

C29_Witness ==
  /\ call = "_reduce_enthusiasm"
  /\ Len(Split(text, <<10, 10>>)) > 1
  /\ Count(text, 33) > Count(ret.value, 33)
  /\ IsSubstr(<<85, 84, 73, 76, 73, 90, 69>>, text)      \* "UTILIZE"
  /\ IsSubstr(<<85, 116, 105, 108, 105, 122, 101>>, ret.value)  \* "Utilize"
  /\ _reduce_enthusiasm(ret.value) = ret.value

\* the threads that have got a RAGService from get_rag_service
Served == {th \in DOMAIN threads : threads[th].returned.raised = "none"}

\* C27: get_rag_service returns a singleton: whatever the calls, concurrent
\* first calls of several threads included, every call returns the same
\* RAGService object and at most one object is ever created.
C27_Singleton ==
  /\ Len(rag_services) <= 1
  /\ \A a, b \in Served : threads[a].returned = threads[b].returned

\* the calls of the provider that were answered with an embedding
Answered == {i \in 1..Len(provider_calls) : provider_calls[i].answer.raised = "none"}

\* the cache key of a text
CacheKey(t) == Truncate(t, CacheKeyLength)

\* _get_embedding has returned an embedding, not []
EmbeddingReturned == call = "_get_embedding" /\ ret.value.vector # <<>>

\* entries come into the cache on success only and are then neither evicted
\* nor overwritten: the cache holds exactly the answers of the successful
\* provider calls; without a client the provider is never called
CacheKeepsAnswers ==
  LET self == rag_services[_rag_service]
  IN  /\ DOMAIN self.embeddings_cache = {CacheKey(provider_calls[i].input) : i \in Answered}
      /\ \A i \in Answered :
           self.embeddings_cache[CacheKey(provider_calls[i].input)] = provider_calls[i].answer.value
      /\ ~self.client => provider_calls = <<>> /\ ~EmbeddingReturned

\* C28 as stated: an embedding returned by _get_embedding(text) is the one
\* the provider computed for that same text; entries are added on success
\* only and never evicted or overwritten; a failed call or a missing client
\* caches nothing.
C28_EmbeddingOfSameText ==
  /\ CacheKeepsAnswers
  /\ EmbeddingReturned =>
       \E i \in Answered : /\ provider_calls[i].input = text
                           /\ provider_calls[i].answer.value = ret.value

\* C28 amended: an embedding returned by _get_embedding(text) is the one the
\* provider computed for the first successfully embedded text that has the
\* same first 100 characters as text; entries are added on success only and
\* never evicted or overwritten; a failed call or a missing client caches
\* nothing.
C28_EmbeddingOfSamePrefix ==
  /\ CacheKeepsAnswers
  /\ EmbeddingReturned =>
       \E i \in Answered : /\ CacheKey(provider_calls[i].input) = CacheKey(text)
                           /\ provider_calls[i].answer.value = ret.value
                           /\ \A j \in Answered :
                                CacheKey(provider_calls[j].input) = CacheKey(text) => j = i

\* an embedding is returned from the cache after a failed call, for a text
\* the provider has only seen fail
C28_Witness ==
  /\ EmbeddingReturned
  /\ \E i \in 1..Len(provider_calls) : /\ provider_calls[i].input = text
                                       /\ provider_calls[i].answer.raised # "none"
  /\ \A i \in Answered : provider_calls[i].input # text

\* generate_tailored_resumes has returned its list of resumes
TailorReturned == call = "generate_tailored_resumes" /\ ret.raised = "none"

\* the text is the output of a humanize_text call made for that language
HumanizedFor(content, lang) ==
  \E i \in 1..Len(core_calls) : /\ core_calls[i].fn = "humanize_text"
                                /\ core_calls[i].result = content
                                /\ core_calls[i].language = lang
                                /\ core_calls[i].apply_variations

\* the text is one of the two returned in place of a resume
IsFallbackText(content) ==
  content \in {ApiErrorFallback(resume_text), EmptyResponseFallback(resume_text)}

\* the text is the stub content of the resume's variant
IsStubOf(resume) ==
  /\ ~use_llm(config)
  /\ resume.content = _build_stub_content(resume.language, resume.target, resume_text,
                                          job_description, request.aggressiveness)

\* C25 as stated: every content string returned by generate_tailored_resumes,
\* stub content and the fallback texts included, has been passed through
\* humanize_text.
C25_EveryContentHumanized ==
  TailorReturned =>
    \A i \in 1..Len(ret.value) : HumanizedFor(ret.value[i].content, ret.value[i].language)

\* C25 amended: every content string returned by generate_tailored_resumes
\* is either stub content (OpenAI not in use), or one of the two fallback
\* texts, or the output of humanize_text(., language.value,
\* apply_variations=True); humanize_text is called once for each content
\* of the last kind and not at all for stub content and fallback texts.
C25_GeneratedContentHumanized ==
  TailorReturned =>
    LET generated == {i \in 1..Len(ret.value) :
                        ~IsStubOf(ret.value[i]) /\ ~IsFallbackText(ret.value[i].content)}
    IN  /\ \A i \in generated : HumanizedFor(ret.value[i].content, ret.value[i].language)
        /\ Len(core_calls) = Cardinality(generated)

\* two resumes are returned, a fallback text and a text that humanize_text
\* has changed
C25_Witness ==
  /\ TailorReturned
  /\ Len(ret.value) = 2
  /\ IsFallbackText(ret.value[1].content)
  /\ Len(core_calls) = 1
  /\ core_calls[1].result = ret.value[2].content
  /\ core_calls[1].result # core_calls[1].text

\* what line 256 returns for the language and the role of a request
FallbackPractices(lang, target) ==
  LET documents == _load_knowledge_base(knowledge_base)
      matching == FilterDocs(documents, lang, target)
  IN  Contents(Truncate(IF matching = <<>> THEN documents ELSE matching, config.RAG_TOP_K))

\* C26: no error of the retrieval path leaves generate_tailored_resumes
\* (the only exception is the RuntimeError of a missing API key); when the
\* semantic search raises, retrieve_best_practices returns the first top_k
\* filtered documents; when the RAG service cannot be created, the LLM is
\* called with an empty RAG context; in both cases the LLM is called for
\* every variant and a generated text is still humanized.
C26_RagErrorsCaught ==
  call = "generate_tailored_resumes" =>
    /\ ret.raised \in {"none", "RuntimeError"}
    /\ ret.raised = "RuntimeError" => config.OPENAI_API_KEY = "" /\ llm_calls = <<>>
    /\ \A i \in 1..Len(llm_calls) :
         /\ llm_calls[i].rag = "search failed" =>
              llm_calls[i].best_practices =
                FallbackPractices(llm_calls[i].language, llm_calls[i].target)
         /\ llm_calls[i].rag = "create failed" => llm_calls[i].rag_context = <<>>
    /\ TailorReturned /\ use_llm(config) =>
         /\ Len(llm_calls) = Len(ret.value)
         /\ \A i \in 1..Len(ret.value) :
              llm_calls[i].rag \in {"search failed", "create failed"} =>
                \/ IsFallbackText(ret.value[i].content)
                \/ HumanizedFor(ret.value[i].content, ret.value[i].language)

\* the provider has failed once, the semantic search has raised and fallen
\* back on a document, and the resume generated after it is humanized
C26_Witness ==
  /\ TailorReturned
  /\ \E i \in 1..Len(provider_calls) : provider_calls[i].answer.raised # "none"
  /\ \E i \in 1..Len(llm_calls) :
       /\ llm_calls[i].rag = "search failed"
       /\ llm_calls[i].best_practices # <<>>
       /\ llm_calls[i].rag_context # <<>>
       /\ ~IsFallbackText(ret.value[i].content)
       /\ HumanizedFor(ret.value[i].content, ret.value[i].language)

\* the tailored resumes user u owns, and how many u may own
Owned(u) == ResumeCount(db, u)

Limit(u) == db.users[u].user_level

\* request r is over, reached the limit check, and its variants added to
\* the resumes counted there are more than its user may own
OverLimit(r) ==
  /\ threads[r].pc = "done"
  /\ threads[r].resume_count >= 0
  /\ threads[r].resume_count + threads[r].variants > Limit(threads[r].user_id)

\* C30: the per-user resume limit.  Every user owns at most user_level
\* tailored resumes, whatever recommend requests were made and however they
\* interleaved, and every request whose variants would have taken the user
\* over the limit was answered 403 and added no tailored resume.
C30_ResumeLimit ==
  /\ \A u \in DOMAIN db.users : Owned(u) <= Limit(u)
  /\ \A r \in DOMAIN threads :
       OverLimit(r) => threads[r].status_code = 403 /\ threads[r].persisted = 0

====
